---- MODULE Spec2Model ----
(***************************************************************************)
(* A model of the gomemcache protocol drivers (memcache/proto/bin and      *)
(* memcache/proto/text).  A driver operation is a function of its          *)
(* arguments and of what the stream does (write failure, the bytes the     *)
(* server answers, a short read); each action runs one whole driver call   *)
(* and records the call, the bytes written and the result.                 *)
(*                                                                         *)
(* Representation.  A byte is a number 0..255, a byte string a sequence of *)
(* bytes.  A binary frame is its 24-byte header, kept as a record of its   *)
(* fields, and its body, a byte string.  TLC's integers are 32-bit, so the *)
(* numbers drawn for flags, deltas, CAS ids and counters are below 2^31;   *)
(* a typed extra is held as its big-endian bytes, which lets the constant  *)
(* 0xffffffff of IncrDecr be written down.                                 *)
(***************************************************************************)
EXTENDS Integers, Sequences, FiniteSets, TLC

VARIABLES
    proto,   \* "text" or "binary": the driver the last call ran on
    call,    \* the last driver call: its name and its arguments
    env,     \* what the stream did during that call
    ret,     \* what the call returned and what it wrote
    store,   \* the faithful server's items, by key (round-trip specification)
    stored   \* per key, the Item last handed to a successful Set (history)

vars == <<proto, call, env, ret, store, stored>>

(***************************************************************************)
(* Byte strings                                                            *)
(***************************************************************************)

\* The n-byte big-endian encoding of a number 0 <= v < 2^31.
RECURSIVE BigEndian(_, _)
BigEndian(v, n) ==
    IF n = 0 THEN <<>> ELSE BigEndian(v \div 256, n - 1) \o <<v % 256>>

\* The number a big-endian byte string denotes.
RECURSIVE FromBigEndian(_)
FromBigEndian(b) ==
    IF b = <<>> THEN 0
    ELSE FromBigEndian(SubSeq(b, 1, Len(b) - 1)) * 256 + b[Len(b)]

\* uint32(x) of a signed 32-bit x as its 4 big-endian bytes (two's complement).
Uint32Bytes(x) ==
    IF x >= 0 THEN BigEndian(x, 4)
    ELSE LET p == BigEndian(-x - 1, 4) IN [i \in 1..4 |-> 255 - p[i]]

\* A uint64 below 2^31 as its 8 big-endian bytes.
Uint64Bytes(x) == BigEndian(x, 8)

\* The first n bytes of b, all of b when it is shorter (bytes.Buffer.Next).
Take(b, n) == SubSeq(b, 1, IF n > Len(b) THEN Len(b) ELSE n)

\* b without its first n bytes.
Drop(b, n) == SubSeq(b, (IF n > Len(b) THEN Len(b) ELSE n) + 1, Len(b))

(***************************************************************************)
(* memcache/proto/bin/proto.go                                             *)
(***************************************************************************)

StatusOK == 0
StatusNotFound == 1
StatusKeyExists == 2
StatusNonNumeric == 6

opGet == 0
opSet == 1
opAdd == 2
opReplace == 3
opIncrement == 5
opDecrement == 6
opVersion == 11
opTouch == 28
opAuthList == 32
opAuthStart == 33

magicSend == 128
magicRecv == 129

\* A mutant of newError: ValueNotStored (5) reported as the NotStored kind.
newErrorNotStoredMixup(status) ==
    CASE status = 0 -> "nil"
      [] status = 1 -> "ErrCacheMiss"
      [] status = 2 -> "ErrCASConflict"
      [] status = 3 -> "ErrValueTooLarge"
      [] status = 4 -> "ErrInvalidArgs"
      [] status = 5 -> "ErrNotStored"
      [] status = 6 -> "ErrNonNumeric"
      [] status = 32 -> "ErrAuthRequired"
      [] status = 33 -> "ErrAuthContinue"
      [] status = 129 -> "ErrUnknownCommand"
      [] status = 130 -> "ErrOutOfMemory"
      [] OTHER -> "ErrUnknownError"

\* newError: the error a response status stands for.
newError(status) ==
    CASE status = StatusOK -> "nil"
      [] status = StatusNotFound -> "ErrCacheMiss"
      [] status = StatusKeyExists -> "ErrCASConflict"
      [] status = 3 -> "ErrValueTooLarge"       \* StatusValueTooLarge
      [] status = 4 -> "ErrInvalidArgs"         \* StatusInvalidArgs
      [] status = 5 -> "ErrValueNotStored"      \* StatusValueNotStored
      [] status = StatusNonNumeric -> "ErrNonNumeric"
      [] status = 32 -> "ErrAuthRequired"       \* StatusAuthRequired  0x20
      [] status = 33 -> "ErrAuthContinue"       \* StatusAuthContinue  0x21
      [] status = 129 -> "ErrUnknownCommand"    \* StatusUnknownCommand 0x81
      [] status = 130 -> "ErrOutOfMemory"       \* StatusOutOfMemory   0x82
      [] OTHER -> "ErrUnknownError"

\* The header struct, zero but for the fields a command sets.
header(op, cas) ==
    [Magic |-> 0, Op |-> op, KeyLen |-> 0, ExtraLen |-> 0, DataType |-> 0,
     ResvOrStatus |-> 0, BodyLen |-> 0, Opaque |-> 0, CAS |-> cas]

\* The msg struct.  iextras: typed values, each its type and its big-endian
\* bytes; oextras: the types of the values the response extras are read
\* into, outs: the bytes read into them.
msg(op, cas, iextras, oextras, key, val) ==
    [header |-> header(op, cas), iextras |-> iextras, oextras |-> oextras,
     outs |-> <<>>, key |-> key, val |-> val]

(***************************************************************************)
(* memcache/proto/bin/cmd.go: the exchange                                 *)
(***************************************************************************)

\* The byte size of a typed extra (the type switch of sizeOfExtras).
TypeSize(t) ==
    CASE t = "uint8" -> 1 [] t = "uint16" -> 2 [] t = "uint32" -> 4
      [] t = "uint64" -> 8

\* sizeOfExtras: a uint8 sum.
RECURSIVE sizeOfExtras(_)
sizeOfExtras(extras) ==
    IF extras = <<>> THEN 0
    ELSE (sizeOfExtras(SubSeq(extras, 1, Len(extras) - 1))
          + TypeSize(extras[Len(extras)].type)) % 256

\* The extras as binary.Write lays them out, in order.
RECURSIVE ExtrasBytes(_)
ExtrasBytes(extras) ==
    IF extras = <<>> THEN <<>>
    ELSE Head(extras).bytes \o ExtrasBytes(Tail(extras))

\* send: fills the length fields of the header, writes header, extras, key
\* and value as one frame.  e.writeErr: the write or the flush fails.
send(m, e) ==
    LET h1 == [m.header EXCEPT !.Magic = magicSend,
                               !.ExtraLen = sizeOfExtras(m.iextras),
                               !.KeyLen = Len(m.key) % 65536]
        h2 == [h1 EXCEPT !.BodyLen = h1.ExtraLen + h1.KeyLen + Len(m.val)]
        frame == [header |-> h2,
                  body |-> ExtrasBytes(m.iextras) \o m.key \o m.val]
    IN  [err |-> IF e.writeErr THEN "write error" ELSE "nil",
         m |-> [m EXCEPT !.header = h2],
         wire |-> IF e.writeErr THEN <<>> ELSE <<frame>>]

\* The loop of recv over m.oextras: binary.Read of each from the body.
RECURSIVE readExtras(_, _, _)
readExtras(buf, oextras, outs) ==
    IF oextras = <<>> THEN [err |-> "nil", outs |-> outs, rest |-> buf]
    ELSE LET n == TypeSize(Head(oextras))
         IN  IF Len(buf) = 0 THEN [err |-> "EOF", outs |-> outs, rest |-> buf]
             ELSE IF Len(buf) < n
                  THEN [err |-> "unexpected EOF", outs |-> outs, rest |-> <<>>]
                  ELSE readExtras(Drop(buf, n), Tail(oextras),
                                  Append(outs, Take(buf, n)))

\* recv: reads a 24-byte header, then BodyLen bytes, then takes the body
\* apart.  e.hdrOk: 24 bytes arrive; e.header: what they decode to;
\* e.stream: the bytes that arrive after them before the stream ends or the
\* deadline expires.  consumed: the bytes taken off the stream.
recv(m, e) ==
    LET Decode(h, ex) ==
            \* ex: what the loop over oextras gave
            IF ex.err # "nil"
            THEN [err |-> ex.err,
                  m |-> [m EXCEPT !.header = h, !.outs = ex.outs],
                  consumed |-> 24 + h.BodyLen]
            ELSE IF h.BodyLen - h.ExtraLen - h.KeyLen < 0
            THEN \* buf.Next of a negative length
                 [err |-> "panic",
                  m |-> [m EXCEPT !.header = h, !.outs = ex.outs,
                                  !.key = Take(ex.rest, h.KeyLen)],
                  consumed |-> 24 + h.BodyLen]
            ELSE [err |-> newError(h.ResvOrStatus),
                  m |-> [m EXCEPT !.header = h, !.outs = ex.outs,
                                  !.key = Take(ex.rest, h.KeyLen),
                                  !.val = Take(Drop(ex.rest, h.KeyLen),
                                               h.BodyLen - h.ExtraLen
                                                   - h.KeyLen)],
                  consumed |-> 24 + h.BodyLen]
        Body(h) ==
            IF Len(e.stream) < h.BodyLen
            THEN [err |-> "read error", m |-> [m EXCEPT !.header = h],
                  consumed |-> 24 + Len(e.stream)]
            ELSE Decode(h,
                        IF h.ResvOrStatus = 0 /\ h.ExtraLen > 0
                        THEN readExtras(SubSeq(e.stream, 1, h.BodyLen),
                                        m.oextras, <<>>)
                        ELSE [err |-> "nil", outs |-> <<>>,
                              rest |-> SubSeq(e.stream, 1, h.BodyLen)])
    IN  IF ~e.hdrOk THEN [err |-> "read error", m |-> m, consumed |-> 0]
        ELSE Body(e.header)

\* A mutant of sendRecv: a response with a status other than OK is left on
\* the stream after its header.
sendRecvLeavesBody(m, e) ==
    LET Received(s, r) ==
            [err |-> r.err, m |-> r.m, wire |-> s.wire,
             consumed |-> IF r.consumed >= 24 /\ r.m.header.ResvOrStatus # 0
                          THEN 24 ELSE r.consumed]
        Sent(s) ==
            IF s.err # "nil"
            THEN [err |-> s.err, m |-> s.m, wire |-> s.wire, consumed |-> 0]
            ELSE Received(s, recv(s.m, e))
    IN  Sent(send(m, e))

\* sendRecv: one request, then one response.
sendRecv(m, e) ==
    LET Received(s, r) ==
            [err |-> r.err, m |-> r.m, wire |-> s.wire,
             consumed |-> r.consumed]
        Sent(s) ==
            IF s.err # "nil"
            THEN [err |-> s.err, m |-> s.m, wire |-> s.wire, consumed |-> 0]
            ELSE Received(s, recv(s.m, e))
    IN  Sent(send(m, e))

(***************************************************************************)
(* memcache/proto/bin/cmd.go: the commands                                 *)
(***************************************************************************)

\* What a driver call hands back.  err: the error returned ("nil": none);
\* val: the number returned; items: the Items given to the callback, in
\* order; wire: what was written to the stream; xerr: the error of the
\* exchange itself, before the command interprets it; msg: the server's
\* message that the text of the error returned ends with, if any.
Ret(err, val, items, wire, xerr) ==
    [err |-> err, val |-> val, items |-> items, wire |-> wire, xerr |-> xerr,
     msg |-> <<>>]

\* verbToOp.
verbToOp(verb) ==
    CASE verb = "incr" -> opIncrement
      [] verb = "decr" -> opDecrement
      [] verb = "cas" -> opSet
      [] verb = "set" -> opSet
      [] verb = "add" -> opAdd
      [] verb = "replace" -> opReplace
      [] OTHER -> opVersion

\* The request extras of a store: flags, then uint32(Expiration).
StoreExtras(item) ==
    <<[type |-> "uint32", bytes |-> BigEndian(item.Flags, 4)],
      [type |-> "uint32", bytes |-> Uint32Bytes(item.Expiration)]>>

\* A mutant of BinPopulate: the item's Casid goes into the header whatever
\* the verb.
BinPopulateAlwaysCas(verb, item, e) ==
    LET Done(r) ==
            IF r.err = "panic" THEN Ret("panic", 0, <<>>, r.wire, r.err)
            ELSE IF (r.err = "ErrCASConflict" /\ verb = "add")
                    \/ verb = "replace"
            THEN Ret("ErrNotStored", 0, <<>>, r.wire, r.err)
            ELSE Ret(r.err, 0, <<>>, r.wire, r.err)
    IN  Done(sendRecv(msg(verbToOp(verb), item.Casid, StoreExtras(item),
                          <<>>, item.Key, item.Value), e))

\* A mutant of BinPopulate: the error of the exchange is handed up as it is,
\* KeyExists included.
BinPopulateNoRemap(verb, item, e) ==
    LET Done(r) == Ret(r.err, 0, <<>>, r.wire, r.err)
    IN  Done(sendRecv(msg(verbToOp(verb),
                          IF verb = "cas" THEN item.Casid ELSE 0,
                          StoreExtras(item), <<>>, item.Key, item.Value), e))

\* cmdRunner.Populate (binary).  Go reads the condition of line 118 as
\* (err == ErrCASConflict && verb == "add") || verb == "replace".
BinPopulate(verb, item, e) ==
    LET Done(r) ==
            IF r.err = "panic" THEN Ret("panic", 0, <<>>, r.wire, r.err)
            ELSE IF (r.err = "ErrCASConflict" /\ verb = "add")
                    \/ verb = "replace"
            THEN Ret("ErrNotStored", 0, <<>>, r.wire, r.err)
            ELSE Ret(r.err, 0, <<>>, r.wire, r.err)
    IN  Done(sendRecv(msg(verbToOp(verb),
                          IF verb = "cas" THEN item.Casid ELSE 0,
                          StoreExtras(item), <<>>, item.Key, item.Value), e))

\* readInt: b[7] | b[6]<<8 | ... | b[0]<<56 of an 8-byte string, an error
\* for any other length.
readInt(b) ==
    IF Len(b) = 8
    THEN [val |-> FromBigEndian(b), err |-> "nil"]
    ELSE [val |-> 0, err |-> "error parsing int"]

\* A mutant of BinIncrDecr: the initial value and the delta change places.
BinIncrDecrSwapped(verb, key, delta, e) ==
    LET Done(r) ==
            IF r.err # "nil" THEN Ret(r.err, 0, <<>>, r.wire, r.err)
            ELSE Ret("nil", readInt(r.m.val).val, <<>>, r.wire, r.err)
    IN  Done(sendRecv(
            msg(verbToOp(verb), 0,
                <<[type |-> "uint64", bytes |-> Uint64Bytes(0)],
                  [type |-> "uint64", bytes |-> Uint64Bytes(delta)],
                  [type |-> "uint32", bytes |-> <<255, 255, 255, 255>>]>>,
                <<>>, key, <<>>), e))

\* cmdRunner.IncrDecr (binary): init = 0, exp = 0xffffffff; the error of
\* readInt is assigned and never read, line 201 returns nil.
BinIncrDecr(verb, key, delta, e) ==
    LET Done(r) ==
            IF r.err # "nil" THEN Ret(r.err, 0, <<>>, r.wire, r.err)
            ELSE Ret("nil", readInt(r.m.val).val, <<>>, r.wire, r.err)
    IN  Done(sendRecv(
            msg(verbToOp(verb), 0,
                <<[type |-> "uint64", bytes |-> Uint64Bytes(delta)],
                  [type |-> "uint64", bytes |-> Uint64Bytes(0)],
                  [type |-> "uint32", bytes |-> <<255, 255, 255, 255>>]>>,
                <<>>, key, <<>>), e))

\* cmdRunner.LegalKey (binary).
BinLegalKey(key) == TRUE

\* cmdRunner.Ping (binary): a VERSION exchange.
BinPing(e) ==
    LET Done(r) == Ret(r.err, 0, <<>>, r.wire, r.err)
    IN  Done(sendRecv(msg(opVersion, 0, <<>>, <<>>, <<>>, <<>>), e))

\* strings.Index(s, sub) != -1: sub is a substring of s.
Contains(s, sub) ==
    \E i \in 0..(Len(s) - Len(sub)) : SubSeq(s, i + 1, i + Len(sub)) = sub

\* The bytes of "PLAIN".
PLAIN == <<80, 76, 65, 73, 78>>

\* cmdRunner.authList: an AUTH_LIST exchange; the value of the response as
\* a string, and the error.
authList(e) ==
    LET Done(r) == [s |-> r.m.val, err |-> r.err, wire |-> r.wire]
    IN  Done(sendRecv(msg(opAuthList, 0, <<>>, <<>>, <<>>, <<>>), e))

\* cmdRunner.authPlain: an AUTH_START exchange with key PLAIN and value
\* NUL username NUL password.
authPlain(username, password, e) ==
    sendRecv(msg(opAuthStart, 0, <<>>, <<>>, PLAIN,
                 <<0>> \o username \o <<0>> \o password), e)

\* cmdRunner.Auth: authList, then authPlain if the list holds the letters
\* PLAIN anywhere; es[1], es[2]: what the stream does during the first and
\* the second exchange.
Auth(username, password, es) ==
    LET Started(l, r) ==
            Ret(r.err, 0, <<>>, l.wire \o r.wire, r.err)
        Listed(l) ==
            IF l.err # "nil" THEN Ret(l.err, 0, <<>>, l.wire, l.err)
            ELSE IF Contains(l.s, PLAIN)
            THEN Started(l, authPlain(username, password, es[2]))
            ELSE Ret("unknown auth types", 0, <<>>, l.wire, "nil")
    IN  Listed(authList(es[1]))

\* A mutant of the loop of Touch: a failed exchange does not end the loop;
\* the last error is what the call returns.
RECURSIVE TouchLoopKeepsGoing(_, _, _, _, _)
TouchLoopKeepsGoing(m, keys, es, i, acc) ==
    LET Done(r) ==
            TouchLoopKeepsGoing(r.m, keys, es, i + 1,
                                Ret(IF r.err # "nil" THEN r.err ELSE acc.err,
                                    0, <<>>, acc.wire \o r.wire, r.err))
    IN  IF i > Len(keys) THEN acc
        ELSE Done(sendRecv([m EXCEPT !.key = keys[i]], es[i]))

\* The loop of Touch from the i-th key on.  m: the one msg the loop uses
\* for every key, as the exchanges before left it (recv reads the response
\* into it); acc: the result so far.
RECURSIVE TouchLoop(_, _, _, _, _)
TouchLoop(m, keys, es, i, acc) ==
    LET Done(r) ==
            IF r.err # "nil"
            THEN Ret(r.err, 0, <<>>, acc.wire \o r.wire, r.err)
            ELSE TouchLoop(r.m, keys, es, i + 1,
                           Ret("nil", 0, <<>>, acc.wire \o r.wire, "nil"))
    IN  IF i > Len(keys) THEN acc
        ELSE Done(sendRecv([m EXCEPT !.key = keys[i]], es[i]))

\* A mutant of BinTouch: every key is touched whatever happened before.
BinTouchKeepsGoing(keys, expiration, es) ==
    TouchLoopKeepsGoing(msg(opTouch, 0,
                            <<[type |-> "uint32",
                               bytes |-> Uint32Bytes(expiration)]>>,
                            <<>>, <<>>, <<>>),
                        keys, es, 1, Ret("nil", 0, <<>>, <<>>, "nil"))

\* cmdRunner.Touch (binary): one msg with opcode TOUCH and the expiration
\* as extras; for each key in turn the key is set and the msg exchanged;
\* the first error ends the call.
BinTouch(keys, expiration, es) ==
    TouchLoop(msg(opTouch, 0,
                  <<[type |-> "uint32", bytes |-> Uint32Bytes(expiration)]>>,
                  <<>>, <<>>, <<>>),
              keys, es, 1, Ret("nil", 0, <<>>, <<>>, "nil"))

\* cmdRunner.getOne: one GET exchange; the callback gets the Item on OK.
\* flags stays 0 when the response extras are not read.
getOne(key, e) ==
    LET Done(r) ==
            IF r.err # "nil" THEN Ret(r.err, 0, <<>>, r.wire, r.err)
            ELSE Ret("nil", 0,
                     <<[Key |-> key, Value |-> r.m.val,
                        Flags |-> IF r.m.outs = <<>> THEN 0
                                  ELSE FromBigEndian(r.m.outs[1]),
                        Expiration |-> 0, Casid |-> r.m.header.CAS]>>,
                     r.wire, r.err)
    IN  Done(sendRecv(msg(opGet, 0, <<>>, <<"uint32">>, key, <<>>), e))

\* A mutant of BinGet: a miss is kept as the error of the call like any
\* other error.
RECURSIVE BinGetMissIsError(_, _)
BinGetMissIsError(keys, es) ==
    LET Both(before, g) ==
            IF before.err = "panic" THEN before
            ELSE IF g.err = "panic"
            THEN Ret("panic", 0, before.items, before.wire \o g.wire, g.xerr)
            ELSE Ret(IF g.err # "nil" THEN g.err ELSE before.err,
                     0, before.items \o g.items, before.wire \o g.wire,
                     g.xerr)
    IN  IF keys = <<>> THEN Ret("nil", 0, <<>>, <<>>, "nil")
        ELSE Both(BinGetMissIsError(SubSeq(keys, 1, Len(keys) - 1), es),
                  getOne(keys[Len(keys)], es[Len(keys)]))

\* cmdRunner.Get (binary): getOne for each key in turn, es[i] being what the
\* stream does during the i-th exchange; the last error that is not a miss
\* is the result.  A panic ends the call where it happens.
RECURSIVE BinGet(_, _)
BinGet(keys, es) ==
    LET Both(before, g) ==
            IF before.err = "panic" THEN before
            ELSE IF g.err = "panic"
            THEN Ret("panic", 0, before.items, before.wire \o g.wire, g.xerr)
            ELSE Ret(IF g.err # "nil" /\ g.err # "ErrCacheMiss"
                     THEN g.err ELSE before.err,
                     0, before.items \o g.items, before.wire \o g.wire,
                     g.xerr)
    IN  IF keys = <<>> THEN Ret("nil", 0, <<>>, <<>>, "nil")
        ELSE Both(BinGet(SubSeq(keys, 1, Len(keys) - 1), es),
                  getOne(keys[Len(keys)], es[Len(keys)]))

(***************************************************************************)
(* memcache/proto/text: the text driver.  The stream is a byte string in   *)
(* both directions; a line ends with the byte 10.                          *)
(***************************************************************************)

crlf == <<13, 10>>
space == <<32>>
resultStored == <<83, 84, 79, 82, 69, 68, 13, 10>>
resultNotStored == <<78, 79, 84, 95, 83, 84, 79, 82, 69, 68, 13, 10>>
resultExists == <<69, 88, 73, 83, 84, 83, 13, 10>>
resultNotFound == <<78, 79, 84, 95, 70, 79, 85, 78, 68, 13, 10>>
resultEnd == <<69, 78, 68, 13, 10>>

\* The bytes of a verb, as %s writes it.
VerbBytes(verb) ==
    CASE verb = "set" -> <<115, 101, 116>>
      [] verb = "add" -> <<97, 100, 100>>
      [] verb = "replace" -> <<114, 101, 112, 108, 97, 99, 101>>
      [] verb = "cas" -> <<99, 97, 115>>
      [] verb = "incr" -> <<105, 110, 99, 114>>
      [] verb = "decr" -> <<100, 101, 99, 114>>

\* %d of a number: its decimal digits, a minus sign before a negative one.
RECURSIVE Dec(_)
Dec(n) ==
    IF n < 0 THEN <<45>> \o Dec(-n)
    ELSE IF n < 10 THEN <<48 + n>>
    ELSE Dec(n \div 10) \o <<48 + (n % 10)>>

\* The byte strings of a sequence joined by single spaces.
RECURSIVE Join(_)
Join(fields) ==
    IF fields = <<>> THEN <<>>
    ELSE IF Len(fields) = 1 THEN fields[1]
    ELSE fields[1] \o space \o Join(Tail(fields))

\* bufio's ReadSlice('\n'): the bytes up to and with the first 10; an error
\* when the stream ends (or the deadline passes) before one comes.
ReadSlice(s) ==
    LET Cut(i) == [err |-> "nil", line |-> SubSeq(s, 1, i),
                   rest |-> SubSeq(s, i + 1, Len(s))]
    IN  IF \E i \in 1..Len(s) : s[i] = 10
        THEN Cut(CHOOSE i \in 1..Len(s) :
                     s[i] = 10 /\ \A j \in 1..(i - 1) : s[j] # 10)
        ELSE [err |-> "read error", line |-> s, rest |-> <<>>]

\* The maximal space-free runs of a byte string, in order (cur: the run
\* being read).
RECURSIVE Fields(_, _)
Fields(s, cur) ==
    IF s = <<>> THEN (IF cur = <<>> THEN <<>> ELSE <<cur>>)
    ELSE IF Head(s) = 32
         THEN (IF cur = <<>> THEN <<>> ELSE <<cur>>) \o Fields(Tail(s), <<>>)
         ELSE Fields(Tail(s), Append(cur, Head(s)))

\* Whether a byte string is one or more decimal digits.
IsDigits(t) == t # <<>> /\ \A i \in 1..Len(t) : t[i] >= 48 /\ t[i] <= 57

\* The number a digit string denotes.
RECURSIVE ParseUint(_)
ParseUint(t) ==
    IF t = <<>> THEN 0
    ELSE ParseUint(SubSeq(t, 1, Len(t) - 1)) * 10 + (t[Len(t)] - 48)

\* The longest key the text driver lets through.
MaxKeyLen == 250

\* A mutant of TextLegalKey: the space (0x20) is let through.
TextLegalKeySpaceAllowed(key) ==
    IF Len(key) > MaxKeyLen THEN FALSE
    ELSE \A i \in 1..Len(key) : ~(key[i] < 32 \/ key[i] = 127)

\* cmdRunner.LegalKey (text).
TextLegalKey(key) ==
    IF Len(key) > MaxKeyLen THEN FALSE
    ELSE \A i \in 1..Len(key) : ~(key[i] <= 32 \/ key[i] = 127)

\* A mutant of TextPopulate: EXISTS is taken for NOT_STORED, and a line that
\* is none of the four for STORED.
TextPopulateLenient(verb, item, e) ==
    LET Done(wire, rd) ==
            IF e.writeErr
            THEN Ret("write error", 0, <<>>, <<>>, "write error")
            ELSE IF rd.err # "nil" THEN Ret(rd.err, 0, <<>>, wire, rd.err)
            ELSE IF rd.line \in {resultNotStored, resultExists}
            THEN Ret("ErrNotStored", 0, <<>>, wire, "nil")
            ELSE IF rd.line = resultNotFound
            THEN Ret("ErrCacheMiss", 0, <<>>, wire, "nil")
            ELSE Ret("nil", 0, <<>>, wire, "nil")
    IN  IF ~TextLegalKey(item.Key)
        THEN Ret("ErrMalformedKey", 0, <<>>, <<>>, "nil")
        ELSE Done((IF verb = "cas"
                   THEN Join(<<VerbBytes(verb), item.Key, Dec(item.Flags),
                               Dec(item.Expiration), Dec(Len(item.Value)),
                               Dec(item.Casid)>>)
                   ELSE Join(<<VerbBytes(verb), item.Key, Dec(item.Flags),
                               Dec(item.Expiration), Dec(Len(item.Value))>>))
                  \o crlf \o item.Value \o crlf,
                  ReadSlice(e.stream))

\* cmdRunner.Populate (text): the key check, then the command line, the
\* value and CRLF, then one response line.  e.writeErr: a write or the
\* flush fails; e.stream: the bytes the server answers.
TextPopulate(verb, item, e) ==
    LET Done(wire, rd) ==
            IF e.writeErr
            THEN Ret("write error", 0, <<>>, <<>>, "write error")
            ELSE IF rd.err # "nil" THEN Ret(rd.err, 0, <<>>, wire, rd.err)
            ELSE IF rd.line = resultStored
            THEN Ret("nil", 0, <<>>, wire, "nil")
            ELSE IF rd.line = resultNotStored
            THEN Ret("ErrNotStored", 0, <<>>, wire, "nil")
            ELSE IF rd.line = resultExists
            THEN Ret("ErrCASConflict", 0, <<>>, wire, "nil")
            ELSE IF rd.line = resultNotFound
            THEN Ret("ErrCacheMiss", 0, <<>>, wire, "nil")
            ELSE Ret("unexpected response line", 0, <<>>, wire, "nil")
    IN  IF ~TextLegalKey(item.Key)
        THEN Ret("ErrMalformedKey", 0, <<>>, <<>>, "nil")
        ELSE Done((IF verb = "cas"
                   THEN Join(<<VerbBytes(verb), item.Key, Dec(item.Flags),
                               Dec(item.Expiration), Dec(Len(item.Value)),
                               Dec(item.Casid)>>)
                   ELSE Join(<<VerbBytes(verb), item.Key, Dec(item.Flags),
                               Dec(item.Expiration), Dec(Len(item.Value))>>))
                  \o crlf \o item.Value \o crlf,
                  ReadSlice(e.stream))

\* Whether a byte string is a decimal number as %d reads it into an int:
\* digits after an optional sign.
IsSigned(t) ==
    IF t # <<>> /\ t[1] \in {43, 45} THEN IsDigits(Tail(t)) ELSE IsDigits(t)

\* The number a signed digit string denotes.
ParseInt(t) ==
    IF t[1] = 45 THEN -ParseUint(Tail(t))
    ELSE IF t[1] = 43 THEN ParseUint(Tail(t))
    ELSE ParseUint(t)

\* A line without the line feed that ends it and the carriage return
\* before that, if there is one: Sscanf lets "\r\n" of the pattern match
\* either end of line.
Chomp(line) ==
    IF line # <<>> /\ line[Len(line)] = 10
    THEN IF Len(line) >= 2 /\ line[Len(line) - 1] = 13
         THEN SubSeq(line, 1, Len(line) - 2)
         ELSE SubSeq(line, 1, Len(line) - 1)
    ELSE line

\* scanGetResponseLine: Sscanf of "VALUE %s %d %d %d\r\n", or of the
\* three-field pattern when the line holds exactly three spaces.  Sscanf
\* is taken to want the word VALUE, then the fields apart by spaces, then
\* the end of the line; flags and cas are unsigned (digits), size is an int
\* (digits after an optional sign).
scanGetResponseLine(line) ==
    LET Scan(want, f) ==
            IF /\ Len(f) = want + 1
               /\ f[1] = <<86, 65, 76, 85, 69>>
               /\ IsDigits(f[3]) /\ IsSigned(f[4])
               /\ want = 4 => IsDigits(f[5])
            THEN [err |-> "nil", Key |-> f[2], Flags |-> ParseUint(f[3]),
                  size |-> ParseInt(f[4]),
                  Casid |-> IF want = 4 THEN ParseUint(f[5]) ELSE 0]
            ELSE [err |-> "unexpected line in get response", Key |-> <<>>,
                  Flags |-> 0, size |-> -1, Casid |-> 0]
    IN  Scan(IF Cardinality({i \in 1..Len(line) : line[i] = 32}) = 3
             THEN 3 ELSE 4,
             Fields(Chomp(line), <<>>))

\* A mutant of parseGetResponse: the value keeps its trailing CRLF.
RECURSIVE parseGetResponseUntrimmed(_, _)
parseGetResponseUntrimmed(s, items) ==
    LET Value(rd, sc, data) ==
            IF Len(data) < sc.size + 2
            THEN [err |-> "read error", items |-> items]
            ELSE IF sc.size < 0
                    \/ SubSeq(data, sc.size + 1, sc.size + 2) # crlf
            THEN [err |-> "corrupt get result read", items |-> items]
            ELSE parseGetResponseUntrimmed(
                     Drop(rd.rest, sc.size + 2),
                     Append(items, [Key |-> sc.Key, Value |-> data,
                                    Flags |-> sc.Flags, Expiration |-> 0,
                                    Casid |-> sc.Casid]))
        Scanned(rd, sc) ==
            IF sc.err # "nil" THEN [err |-> sc.err, items |-> items]
            ELSE IF sc.size + 2 < 0 THEN [err |-> "panic", items |-> items]
            ELSE Value(rd, sc, Take(rd.rest, sc.size + 2))
        Line(rd) ==
            IF rd.err # "nil" THEN [err |-> rd.err, items |-> items]
            ELSE IF rd.line = resultEnd THEN [err |-> "nil", items |-> items]
            ELSE Scanned(rd, scanGetResponseLine(rd.line))
    IN  Line(ReadSlice(s))

\* parseGetResponse: lines up to END; after each VALUE line size+2 bytes,
\* which must end in CRLF; the callback gets the Item with the first size
\* bytes.  items: the Items handed to the callback so far.  make([]byte,
\* size+2) of a negative length panics; a buffer shorter than two bytes
\* (size -1 or -2) has no CRLF suffix.
RECURSIVE parseGetResponse(_, _)
parseGetResponse(s, items) ==
    LET Value(rd, sc, data) ==
            IF Len(data) < sc.size + 2
            THEN [err |-> "read error", items |-> items]
            ELSE IF sc.size < 0
                    \/ SubSeq(data, sc.size + 1, sc.size + 2) # crlf
            THEN [err |-> "corrupt get result read", items |-> items]
            ELSE parseGetResponse(
                     Drop(rd.rest, sc.size + 2),
                     Append(items, [Key |-> sc.Key,
                                    Value |-> SubSeq(data, 1, sc.size),
                                    Flags |-> sc.Flags, Expiration |-> 0,
                                    Casid |-> sc.Casid]))
        Scanned(rd, sc) ==
            IF sc.err # "nil" THEN [err |-> sc.err, items |-> items]
            ELSE IF sc.size + 2 < 0 THEN [err |-> "panic", items |-> items]
            ELSE Value(rd, sc, Take(rd.rest, sc.size + 2))
        Line(rd) ==
            IF rd.err # "nil" THEN [err |-> rd.err, items |-> items]
            ELSE IF rd.line = resultEnd THEN [err |-> "nil", items |-> items]
            ELSE Scanned(rd, scanGetResponseLine(rd.line))
    IN  Line(ReadSlice(s))

\* cmdRunner.Get (text): "gets k1 k2 ...\r\n", then the response.
TextGet(keys, e) ==
    LET Done(p) ==
            IF e.writeErr
            THEN Ret("write error", 0, <<>>, <<>>, "write error")
            ELSE Ret(p.err, 0, p.items,
                     <<103, 101, 116, 115, 32>> \o Join(keys) \o crlf, p.err)
    IN  Done(parseGetResponse(e.stream, <<>>))

resultOK == <<79, 75, 13, 10>>
resultDeleted == <<68, 69, 76, 69, 84, 69, 68, 13, 10>>
resultClientErrorPrefix ==
    <<67, 76, 73, 69, 78, 84, 95, 69, 82, 82, 79, 82, 32>>

\* writeReadLine: writes the command line, flushes, reads one line.
writeReadLine(bytes, e) ==
    LET Read(rd) == [err |-> rd.err, line |-> rd.line, wire |-> bytes]
    IN  IF e.writeErr
        THEN [err |-> "write error", line |-> <<>>, wire |-> <<>>]
        ELSE Read(ReadSlice(e.stream))

\* cmdRunner.writeExpectf: one command line, one response line; OK and the
\* expected line are success.
writeExpectf(expect, bytes, e) ==
    LET Done(r) ==
            IF r.err # "nil" THEN Ret(r.err, 0, <<>>, r.wire, r.err)
            ELSE IF r.line = resultOK THEN Ret("nil", 0, <<>>, r.wire, "nil")
            ELSE IF r.line = expect THEN Ret("nil", 0, <<>>, r.wire, "nil")
            ELSE IF r.line = resultNotStored
            THEN Ret("ErrNotStored", 0, <<>>, r.wire, "nil")
            ELSE IF r.line = resultExists
            THEN Ret("ErrCASConflict", 0, <<>>, r.wire, "nil")
            ELSE IF r.line = resultNotFound
            THEN Ret("ErrCacheMiss", 0, <<>>, r.wire, "nil")
            ELSE Ret("unexpected response line", 0, <<>>, r.wire, "nil")
    IN  Done(writeReadLine(bytes, e))

\* cmdRunner.Delete (text): "delete <key>\r\n", expecting DELETED.
TextDelete(key, e) ==
    writeExpectf(resultDeleted,
                 <<100, 101, 108, 101, 116, 101, 32>> \o key \o crlf, e)

\* cmdRunner.Touch (text): for each key in turn "touch <key> <exp>\r\n" is
\* written and flushed and one line read from the stream; TOUCHED goes on
\* to the next key, NOT_FOUND is a miss, any other line an error.  The key
\* is not checked.  e.stream: the bytes the server answers the call with.
RECURSIVE TextTouch(_, _, _)
TextTouch(keys, expiration, e) ==
    LET resultTouched == <<84, 79, 85, 67, 72, 69, 68, 13, 10>>
        cmd == <<116, 111, 117, 99, 104, 32>> \o keys[1] \o space
                   \o Dec(expiration) \o crlf
        Rest(r) == Ret(r.err, 0, <<>>, cmd \o r.wire, r.xerr)
        Line(rd) ==
            IF rd.err # "nil" THEN Ret(rd.err, 0, <<>>, cmd, rd.err)
            ELSE IF rd.line = resultTouched
            THEN Rest(TextTouch(Tail(keys), expiration,
                                [e EXCEPT !.stream = rd.rest]))
            ELSE IF rd.line = resultNotFound
            THEN Ret("ErrCacheMiss", 0, <<>>, cmd, "nil")
            ELSE Ret("unexpected response line", 0, <<>>, cmd, "nil")
    IN  IF keys = <<>> THEN Ret("nil", 0, <<>>, <<>>, "nil")
        ELSE IF e.writeErr
        THEN Ret("write error", 0, <<>>, <<>>, "write error")
        ELSE Line(ReadSlice(e.stream))

\* cmdRunner.IncrDecr (text): "<verb> <key> <delta>\r\n"; NOT_FOUND is a
\* miss; after the prefix CLIENT_ERROR the line without that prefix and
\* without its last two bytes is the message of the error; otherwise the
\* line without its last two bytes is parsed as a number (ParseUint, base
\* 10: digits only).  line[a:b] with b < a panics.
TextIncrDecr(verb, key, delta, e) ==
    LET Parsed(r, s) ==
            IF IsDigits(s) THEN Ret("nil", ParseUint(s), <<>>, r.wire, "nil")
            ELSE Ret("invalid syntax", 0, <<>>, r.wire, "nil")
        Done(r) ==
            IF r.err # "nil" THEN Ret(r.err, 0, <<>>, r.wire, r.err)
            ELSE IF r.line = resultNotFound
            THEN Ret("ErrCacheMiss", 0, <<>>, r.wire, "nil")
            ELSE IF Take(r.line, Len(resultClientErrorPrefix))
                        = resultClientErrorPrefix
            THEN IF Len(r.line) - 2 < Len(resultClientErrorPrefix)
                 THEN Ret("panic", 0, <<>>, r.wire, "nil")
                 ELSE [Ret("client error", 0, <<>>, r.wire, "nil")
                          EXCEPT !.msg =
                              SubSeq(r.line,
                                     Len(resultClientErrorPrefix) + 1,
                                     Len(r.line) - 2)]
            ELSE IF Len(r.line) < 2 THEN Ret("panic", 0, <<>>, r.wire, "nil")
            ELSE Parsed(r, SubSeq(r.line, 1, Len(r.line) - 2))
    IN  Done(writeReadLine(Join(<<VerbBytes(verb), key, Dec(delta)>>)
                           \o crlf, e))

(***************************************************************************)
(* Inputs and streams                                                      *)
(***************************************************************************)

\* A driver call as the state records it.
Call(op, verb, item, keys, delta) ==
    [op |-> op, verb |-> verb, item |-> item, keys |-> keys, delta |-> delta]

NoItem == [Key |-> <<>>, Value |-> <<>>, Flags |-> 0, Expiration |-> 0,
           Casid |-> 0]

NoCall == Call("none", "", NoItem, <<>>, 0)

\* A key of n bytes 'a'.
LongKey(n) == [i \in 1..n |-> 97]

foo == <<102, 111, 111>>

\* The keys of store calls: the empty key, "foo", "!" (the smallest legal
\* byte), "foo bar", "foo\x7f", a key with a control byte, and keys of
\* MaxKeyLen and MaxKeyLen + 1 bytes.
StoreKeys ==
    {<<>>, foo, <<33>>, <<102, 111, 111, 32, 98, 97, 114>>,
     <<102, 111, 111, 127>>, <<31, 102>>, LongKey(MaxKeyLen),
     LongKey(MaxKeyLen + 1)}

StoreVerbs == {"set", "add", "replace", "cas"}

StoreItems ==
    [Key : StoreKeys, Value : {<<>>, <<102, 111, 111, 118, 97, 108>>},
     Flags : {0, 123}, Expiration : {0, -1}, Casid : {0, 7}]

\* A response header.
RespHeader(op, status, extraLen, keyLen, bodyLen, cas) ==
    [Magic |-> magicRecv, Op |-> op, KeyLen |-> keyLen, ExtraLen |-> extraLen,
     DataType |-> 0, ResvOrStatus |-> status, BodyLen |-> bodyLen,
     Opaque |-> 0, CAS |-> cas]

\* What a stream does during one exchange.  writeErr: the request cannot be
\* written; hdrOk, header: the 24 bytes of a response header arrive, and
\* what they hold (binary); stream: the bytes that arrive (after the header,
\* for binary) before the stream ends or the deadline expires.
Env(writeErr, hdrOk, hdr, stream) ==
    [writeErr |-> writeErr, hdrOk |-> hdrOk, header |-> hdr,
     stream |-> stream]

\* The transport failures of a binary exchange: the write fails; no header
\* arrives; the header announces two body bytes and one arrives.
BinTransportFailures(op) ==
    {Env(TRUE, FALSE, header(0, 0), <<>>),
     Env(FALSE, FALSE, header(0, 0), <<>>),
     Env(FALSE, TRUE, RespHeader(op, StatusOK, 0, 0, 2, 0), <<1>>)}

\* The statuses a server answers a store with, the named ones and two others.
StoreStatuses == {0, 1, 2, 3, 4, 5, 6, 32, 129, 130, 7, 65535}

\* What the stream may do during a binary store: fail, or deliver a whole
\* response with no body and any of the statuses.
BinStoreEnvs(op) ==
    BinTransportFailures(op) \cup
    {Env(FALSE, TRUE, RespHeader(op, st, 0, 0, 0, c), <<>>) :
        st \in StoreStatuses, c \in {9}}

\* What the stream may do during a text store: fail to write; answer one of
\* the known lines; answer ERROR; end before a line is complete; answer
\* STORED without the CR, OK, or an empty line.
TextStoreEnvs ==
    {Env(TRUE, FALSE, header(0, 0), <<>>)} \cup
    {Env(FALSE, FALSE, header(0, 0), l) :
        l \in {resultStored, resultNotStored, resultExists, resultNotFound,
               <<69, 82, 82, 79, 82, 13, 10>>, <<83, 84, 79, 82>>, <<>>,
               <<83, 84, 79, 82, 69, 68, 10>>, <<79, 75, 13, 10>>,
               <<13, 10>>}}

\* Whether a binary exchange got its response whole off the stream.
FullyReceived(e) ==
    ~e.writeErr /\ e.hdrOk /\ Len(e.stream) >= e.header.BodyLen

(***************************************************************************)
(* Stores against an arbitrary server, both drivers                        *)
(***************************************************************************)

InitStore ==
    /\ proto \in {"text", "binary"}
    /\ call = NoCall
    /\ env = Env(FALSE, FALSE, header(0, 0), <<>>)
    /\ ret = Ret("nil", 0, <<>>, <<>>, "nil")
    /\ store = [items |-> <<>>, cas |-> 0]
    /\ stored = <<>>

\* Set, Add, Replace or CompareAndSwap on the binary driver.
DoBinPopulate ==
    /\ proto = "binary" /\ call = NoCall
    /\ \E verb \in StoreVerbs, item \in StoreItems :
         \E e \in BinStoreEnvs(verbToOp(verb)) :
            /\ call' = Call("Populate", verb, item, <<>>, 0)
            /\ env' = e
            /\ ret' = BinPopulate(verb, item, e)
    /\ UNCHANGED <<proto, store, stored>>

\* Set, Add, Replace or CompareAndSwap on the text driver.
DoTextPopulate ==
    /\ proto = "text" /\ call = NoCall
    /\ \E verb \in StoreVerbs, item \in StoreItems, e \in TextStoreEnvs :
            /\ call' = Call("Populate", verb, item, <<>>, 0)
            /\ env' = e
            /\ ret' = TextPopulate(verb, item, e)
    /\ UNCHANGED <<proto, store, stored>>

NextStore == DoBinPopulate \/ DoTextPopulate

SpecStore == InitStore /\ [][NextStore]_vars

(***************************************************************************)
(* Claims about stores                                                     *)
(***************************************************************************)

\* C1: under the binary driver a store (SET, ADD, REPLACE or CAS) whose
\* response was received whole with status OK returns no error; a Replace
\* the server acknowledged with OK returns success.
C1_StoreOkReturnsSuccess ==
    (proto = "binary" /\ call.op = "Populate" /\ FullyReceived(env)
        /\ env.header.ResvOrStatus = StatusOK)
    => ret.err = "nil"

\* C2: under the binary driver a store whose response status is KeyExists
\* returns NotStored for ADD and REPLACE and CASConflict for CAS and SET.
C2_KeyExistsByVerb ==
    (proto = "binary" /\ call.op = "Populate" /\ FullyReceived(env)
        /\ env.header.ResvOrStatus = StatusKeyExists)
    => /\ call.verb \in {"add", "replace"} => ret.err = "ErrNotStored"
       /\ call.verb \in {"cas", "set"} => ret.err = "ErrCASConflict"

\* C2 happens: an ADD answered KeyExists returned NotStored.
C2_Witness ==
    /\ proto = "binary" /\ call.op = "Populate" /\ call.verb = "add"
    /\ FullyReceived(env) /\ env.header.ResvOrStatus = StatusKeyExists
    /\ ret.err = "ErrNotStored"

\* C3: under the binary driver a store whose exchange fails in transport
\* (the write fails, the header does not arrive, the body is cut short)
\* returns that I/O error, for every verb, and never a semantic outcome.
C3_TransportErrorSurfaces ==
    (proto = "binary" /\ call.op = "Populate" /\ ~FullyReceived(env))
    => /\ ret.err \in {"write error", "read error"}
       /\ ret.err = ret.xerr

\* C7: under the text driver a store whose key is longer than 250 bytes or
\* holds a byte <= 0x20 or = 0x7F returns MalformedKey and writes nothing;
\* a key of at most 250 bytes, each > 0x20 and # 0x7F, is never rejected
\* as malformed.
C7_TextKeyLegality ==
    (proto = "text" /\ call.op = "Populate")
    => LET k == call.item.Key
           bad == \/ Len(k) > 250
                  \/ \E i \in 1..Len(k) : k[i] <= 32 \/ k[i] = 127
       IN  /\ bad => (ret.err = "ErrMalformedKey" /\ ret.wire = <<>>)
           /\ ~bad => ret.err # "ErrMalformedKey"

\* C7 happens: a store of "foo bar" was refused with nothing written.
C7_Witness ==
    /\ proto = "text" /\ call.op = "Populate"
    /\ call.item.Key = <<102, 111, 111, 32, 98, 97, 114>>
    /\ ret.err = "ErrMalformedKey" /\ ret.wire = <<>>

\* C8: a store of an item with the empty key yields MalformedKey, under
\* the text driver and under the binary driver.
C8_EmptyKeyRejected ==
    (call.op = "Populate" /\ call.item.Key = <<>>)
    => ret.err = "ErrMalformedKey"

\* The number of spaces of a byte string.
Spaces(b) == Cardinality({i \in 1..Len(b) : b[i] = 32})

\* C10: the item's Casid goes to the server if and only if the verb is
\* CAS.  Text: the command line has a sixth field, the Casid, for CAS and
\* five fields otherwise.  Binary: the header's CAS field is the Casid for
\* CAS, sent with the SET opcode, and 0 for SET, ADD and REPLACE.
C10_CasOnlyForCasVerb ==
    (call.op = "Populate" /\ ret.wire # <<>>)
    => IF proto = "binary"
       THEN LET h == ret.wire[1].header
            IN  IF call.verb = "cas"
                THEN h.CAS = call.item.Casid /\ h.Op = opSet
                ELSE h.CAS = 0
       ELSE LET line == ReadSlice(ret.wire).line
                n == Len(line)
                c == Dec(call.item.Casid)
            IN  IF call.verb = "cas"
                THEN /\ Spaces(line) = 5
                     /\ SubSeq(line, n - Len(c) - 2, n)
                            = space \o c \o crlf
                ELSE Spaces(line) = 4

\* C10 happens: a SET of an item with Casid 7 went out with header CAS 0,
\* on the binary driver.
C10_Witness ==
    /\ proto = "binary" /\ call.op = "Populate" /\ call.verb = "set"
    /\ call.item.Casid = 7 /\ ret.wire # <<>>
    /\ ret.wire[1].header.CAS = 0

\* The kinds of error that are outcomes of the cache, not failures of the
\* exchange.
SemanticErrors ==
    {"ErrCacheMiss", "ErrCASConflict", "ErrNotStored", "ErrNonNumeric",
     "ErrMalformedKey"}

\* C11: a text store that got a response line returns by that line alone:
\* STORED success, NOT_STORED NotStored, EXISTS CASConflict, NOT_FOUND
\* CacheMiss, and any other line an error that is neither success nor one
\* of the semantic outcomes.
C11_TextStoreByLine ==
    (proto = "text" /\ call.op = "Populate" /\ ret.wire # <<>>
        /\ ReadSlice(env.stream).err = "nil")
    => LET line == ReadSlice(env.stream).line
       IN  CASE line = <<83, 84, 79, 82, 69, 68, 13, 10>> -> ret.err = "nil"
             [] line = <<78, 79, 84, 95, 83, 84, 79, 82, 69, 68, 13, 10>> ->
                    ret.err = "ErrNotStored"
             [] line = <<69, 88, 73, 83, 84, 83, 13, 10>> ->
                    ret.err = "ErrCASConflict"
             [] line = <<78, 79, 84, 95, 70, 79, 85, 78, 68, 13, 10>> ->
                    ret.err = "ErrCacheMiss"
             [] OTHER -> ret.err \notin SemanticErrors \cup {"nil"}

\* C11 happens: a store answered OK (not a store's line) returned the
\* error of an unexpected line.
C11_Witness ==
    /\ proto = "text" /\ call.op = "Populate" /\ ret.wire # <<>>
    /\ env.stream = <<79, 75, 13, 10>>
    /\ ret.err = "unexpected response line"

(***************************************************************************)
(* Increment and Decrement on the binary driver, arbitrary server          *)
(***************************************************************************)

CounterKeys == {<<>>, foo, <<102, 111, 111, 32, 98, 97, 114>>}

CounterDeltas == {1, 8, 65537}

\* The values a server may answer a counter command with: 8 bytes (50, 258,
\* 0x01020304), and strings of 0, 4 and 9 bytes.
CounterValues ==
    {Uint64Bytes(50), <<0, 0, 0, 0, 0, 0, 1, 2>>, <<0, 0, 0, 0, 1, 2, 3, 4>>,
     <<>>, <<0, 0, 0, 50>>, <<0, 0, 0, 0, 0, 0, 0, 0, 50>>}

\* What the stream may do during a binary counter command: fail, or deliver
\* a whole response with one of the statuses and one of the values.
BinCounterEnvs(op) ==
    BinTransportFailures(op) \cup
    {Env(FALSE, TRUE, RespHeader(op, st, 0, 0, Len(v), 9), v) :
        st \in {0, 1, 4, 6, 129}, v \in CounterValues}

InitCounter == InitStore /\ proto = "binary"

\* Increment or Decrement on the binary driver.
DoBinIncrDecr ==
    /\ proto = "binary" /\ call = NoCall
    /\ \E verb \in {"incr", "decr"}, key \in CounterKeys,
          delta \in CounterDeltas :
         \E e \in BinCounterEnvs(verbToOp(verb)) :
            /\ call' = Call("IncrDecr", verb, NoItem, <<key>>, delta)
            /\ env' = e
            /\ ret' = BinIncrDecr(verb, key, delta, e)
    /\ UNCHANGED <<proto, store, stored>>

NextCounter == DoBinIncrDecr

SpecCounter == InitCounter /\ [][NextCounter]_vars

\* The value of a response received whole: the body after extras and key.
ValueOf(e) ==
    SubSeq(e.stream, e.header.ExtraLen + e.header.KeyLen + 1,
           e.header.BodyLen)

\* C5: binary Increment/Decrement answered with status OK and a value that
\* is not 8 bytes long returns an error; it never returns a number (0)
\* with no error for such a response.
C5_BadLengthIsError ==
    (call.op = "IncrDecr" /\ FullyReceived(env)
        /\ env.header.ResvOrStatus = StatusOK /\ Len(ValueOf(env)) # 8)
    => ret.err # "nil"

\* C6: binary Increment/Decrement sends the extras delta (8 bytes), initial
\* 0 (8 bytes), expiration 0xFFFFFFFF (4 bytes), then the key, with opcode
\* INCR (0x05) for Increment and DECR (0x06) for Decrement; NotFound yields
\* CacheMiss, NonNumeric yields NonNumeric, OK with an 8-byte value yields
\* the number whose big-endian 64-bit form the value is.
C6_CounterExchange ==
    call.op = "IncrDecr"
    => /\ ret.wire # <<>> =>
            LET f == ret.wire[1]
            IN  /\ Len(ret.wire) = 1
                /\ f.header.Op = (IF call.verb = "incr" THEN 5 ELSE 6)
                /\ f.header.ExtraLen = 20
                /\ f.body = BigEndian(call.delta, 8)
                            \o <<0, 0, 0, 0, 0, 0, 0, 0>>
                            \o <<255, 255, 255, 255>> \o call.keys[1]
       /\ ~env.writeErr => ret.wire # <<>>
       /\ FullyReceived(env) =>
            /\ env.header.ResvOrStatus = 1 => ret.err = "ErrCacheMiss"
            /\ env.header.ResvOrStatus = 6 => ret.err = "ErrNonNumeric"
            /\ (env.header.ResvOrStatus = 0 /\ Len(ValueOf(env)) = 8) =>
                  /\ ret.err = "nil"
                  /\ BigEndian(ret.val, 8) = ValueOf(env)

\* C6 happens: an Increment by 65537 answered OK with the bytes of 258
\* returned 258.
C6_Witness ==
    /\ call.op = "IncrDecr" /\ call.verb = "incr" /\ call.delta = 65537
    /\ FullyReceived(env) /\ env.header.ResvOrStatus = 0
    /\ ValueOf(env) = <<0, 0, 0, 0, 0, 0, 1, 2>>
    /\ ret.err = "nil" /\ ret.val = 258

(***************************************************************************)
(* The status of a binary response, arbitrary server                       *)
(***************************************************************************)

\* The largest value of the 16-bit status field.
MaxStatus == 65535

\* The statuses tried with every shape of response: the named ones, their
\* neighbours, and values that differ from a named one in the high byte.
StatusSample ==
    {0, 1, 2, 3, 4, 5, 6, 7, 31, 32, 33, 34, 128, 129, 130, 131, 256, 512,
     65521, 65535}

\* Shapes of a response body: extras length, key length, body length and
\* the bytes that arrive.  No body; flags and a one-byte value; a message
\* as value; extras cut short by the body length; a key length beyond the
\* body length; a body that stops before the body length.
BodyShapes ==
    {<<0, 0, 0, <<>>>>,
     <<4, 0, 5, <<0, 0, 0, 123, 120>>>>,
     <<0, 0, 3, <<78, 111, 116>>>>,
     <<4, 0, 2, <<0, 0>>>>,
     <<0, 1, 0, <<>>>>,
     <<0, 0, 3, <<78>>>>}

InitStatus == InitStore /\ proto = "binary"

\* Ping answered by a response without body, with any 16-bit status.
DoPingAnyStatus ==
    /\ proto = "binary" /\ call = NoCall
    /\ \E st \in 0..MaxStatus :
         LET e == Env(FALSE, TRUE, RespHeader(opVersion, st, 0, 0, 0, 0), <<>>)
         IN  /\ call' = Call("Ping", "", NoItem, <<>>, 0)
             /\ env' = e
             /\ ret' = BinPing(e)
    /\ UNCHANGED <<proto, store, stored>>

\* Get of one key answered by a response of any shape, or not answered.
DoGetAnyShape ==
    /\ proto = "binary" /\ call = NoCall
    /\ \E st \in StatusSample, sh \in BodyShapes, failed \in BOOLEAN :
         \E e \in IF failed THEN BinTransportFailures(opGet)
                  ELSE {Env(FALSE, TRUE,
                            RespHeader(opGet, st, sh[1], sh[2], sh[3], 9),
                            sh[4])} :
            /\ call' = Call("Get", "", NoItem, <<foo>>, 0)
            /\ env' = e
            /\ ret' = BinGet(<<foo>>, <<e>>)
    /\ UNCHANGED <<proto, store, stored>>

\* Increment or Decrement of the key "foo" or of a key of 65536 bytes by 1,
\* answered OK or NotFound by a response that is the number 5 alone, the
\* number after four bytes of extras, the number after the key "foo", or
\* four bytes of extras alone.
DoIncrDecrAnyFrame ==
    /\ proto = "binary" /\ call = NoCall
    /\ \E verb \in {"incr", "decr"}, key \in {foo, LongKey(65536)},
          st \in {StatusOK, StatusNotFound},
          sh \in {<<0, 0, <<0, 0, 0, 0, 0, 0, 0, 5>>>>,
                  <<4, 0, <<0, 0, 0, 0, 0, 0, 0, 0, 0, 0, 0, 5>>>>,
                  <<0, 3, foo \o <<0, 0, 0, 0, 0, 0, 0, 5>>>>,
                  <<4, 0, <<0, 0, 0, 0>>>>} :
         LET e == Env(FALSE, TRUE,
                      RespHeader(verbToOp(verb), st, sh[1], sh[2],
                                 Len(sh[3]), 9),
                      sh[3])
         IN  /\ call' = Call("IncrDecr", verb, NoItem, <<key>>, 1)
             /\ env' = e
             /\ ret' = BinIncrDecr(verb, key, 1, e)
    /\ UNCHANGED <<proto, store, stored>>

NextStatus == DoPingAnyStatus \/ DoGetAnyShape \/ DoIncrDecrAnyFrame

SpecStatus == InitStatus /\ [][NextStatus]_vars

\* Whether a response received whole can be taken apart: the body is as
\* long as extras and key together, and a Get answered OK with extras finds
\* the four bytes of the flags in the body.
Decodable(e) ==
    /\ e.header.BodyLen >= e.header.ExtraLen + e.header.KeyLen
    /\ (call.op = "Get" /\ e.header.ResvOrStatus = 0 /\ e.header.ExtraLen > 0)
        => e.header.BodyLen >= 4

\* C4: for every 16-bit status the result of a binary exchange whose
\* response was received whole and taken apart is the one of the status
\* table; an exchange whose response was received whole with a non-zero
\* status never ends in success.
C4_StatusTable ==
    (call.op \in {"Ping", "Get"} /\ FullyReceived(env))
    => LET st == env.header.ResvOrStatus
           table == [s \in {0, 1, 2, 3, 4, 5, 6, 32, 33, 129, 130} |->
                       CASE s = 0 -> "nil"
                         [] s = 1 -> "ErrCacheMiss"
                         [] s = 2 -> "ErrCASConflict"
                         [] s = 3 -> "ErrValueTooLarge"
                         [] s = 4 -> "ErrInvalidArgs"
                         [] s = 5 -> "ErrValueNotStored"
                         [] s = 6 -> "ErrNonNumeric"
                         [] s = 32 -> "ErrAuthRequired"
                         [] s = 33 -> "ErrAuthContinue"
                         [] s = 129 -> "ErrUnknownCommand"
                         [] s = 130 -> "ErrOutOfMemory"]
       IN  /\ Decodable(env) =>
                ret.xerr = (IF st \in DOMAIN table THEN table[st]
                            ELSE "ErrUnknownError")
           /\ st # 0 => ret.xerr # "nil"

\* C4 happens: a response with the unlisted status 0x0200 gave UnknownError.
C4_Witness ==
    /\ call.op = "Ping" /\ FullyReceived(env)
    /\ env.header.ResvOrStatus = 512
    /\ ret.xerr = "ErrUnknownError"

\* C21: the value a response received whole with status OK hands to the
\* caller is the last body-length - extras-length - key-length bytes of
\* the body: the Item's value of a Get, the 8 bytes the number of an
\* Increment or Decrement is read from, also when the response carries
\* extras the operation does not decode.
C21_ValueIsBodyTail ==
    (call.op \in {"Get", "IncrDecr"} /\ FullyReceived(env)
     /\ env.header.ResvOrStatus = StatusOK
     /\ env.header.BodyLen >= env.header.ExtraLen + env.header.KeyLen
     /\ ret.err = "nil")
    => LET value == SubSeq(env.stream,
                           env.header.ExtraLen + env.header.KeyLen + 1,
                           env.header.BodyLen)
       IN  /\ call.op = "Get" =>
                /\ Len(ret.items) = 1
                /\ ret.items[1].Value = value
           /\ (call.op = "IncrDecr" /\ Len(value) = 8) =>
                BigEndian(ret.val, 8) = value

\* C22: every request frame written has magic 0x80, an extras-length that
\* is the size of the extras written (none for Ping and Get, 20 bytes for
\* Increment and Decrement), a key-length that is the length of the key
\* written, and a body-length that is the number of bytes written after
\* the header, for keys of 65536 bytes as for short ones.
C22_RequestHeaderLengths ==
    (call.op \in {"Ping", "Get", "IncrDecr"})
    => \A i \in 1..Len(ret.wire) :
          LET f == ret.wire[i]
              key == IF call.op = "Ping" THEN <<>> ELSE call.keys[1]
              extras == IF call.op = "IncrDecr" THEN 20 ELSE 0
          IN  /\ f.header.Magic = 128
              /\ f.header.ExtraLen = extras
              /\ Len(f.body) = extras + Len(key)
              /\ SubSeq(f.body, extras + 1, Len(f.body)) = key
              /\ f.header.KeyLen = Len(key)
              /\ f.header.BodyLen = Len(f.body)

\* C26: a response whose header and whole body arrived never makes the
\* receive step abort; it ends in a decoded message or in an error.
C26_RecvNeverAborts ==
    (call.op \in {"Ping", "Get", "IncrDecr"} /\ FullyReceived(env))
    => ret.err # "panic"

(***************************************************************************)
(* Set then Get against a server that stores items faithfully              *)
(***************************************************************************)

\* The most mutations the server's CAS counter counts.
MaxCas == 3

RTKeys == {foo, <<102, 111, 111, 32, 98, 97, 114>>}

\* Values: "fooval", and a value that holds CR LF and ends in CR LF.
RTValues == {<<102, 111, 111, 118, 97, 108>>, <<13, 10, 120, 13, 10>>}

RTItems ==
    [Key : RTKeys, Value : RTValues, Flags : {123, 2147483647},
     Expiration : {0}, Casid : {0}]

\* f with x mapped to v.
Put(f, x, v) == [y \in DOMAIN f \cup {x} |-> IF y = x THEN v ELSE f[y]]

\* The server keeps, per key, value, flags and CAS token; a Set gives the
\* item the next token.
ServerSet(st, key, value, flags) ==
    [items |-> Put(st.items, key,
                   [value |-> value, flags |-> flags, cas |-> st.cas + 1]),
     cas |-> st.cas + 1]

\* A response of the faithful server: its store afterwards and what the
\* stream delivers.
Reply(st, hdrOk, hdr, bytes) ==
    [store |-> st, env |-> Env(FALSE, hdrOk, hdr, bytes)]

\* A memcached server on the binary protocol: takes the request frame apart
\* by the lengths of its header; SET stores and answers OK with the new
\* token; GET answers OK with flags as extras, the value and the token, or
\* NotFound with a message.  Yields the new store and the response.
BinServer(frame, st) ==
    LET Stored(op, st2) ==
            Reply(st2, TRUE, RespHeader(op, StatusOK, 0, 0, 0, st2.cas), <<>>)
        Found(op, it) ==
            Reply(st, TRUE,
                  RespHeader(op, StatusOK, 4, 0, 4 + Len(it.value), it.cas),
                  BigEndian(it.flags, 4) \o it.value)
        Request(h, key, val) ==
            IF h.Op = opSet
            THEN Stored(h.Op,
                        ServerSet(st, key, val,
                                  FromBigEndian(SubSeq(frame.body, 1, 4))))
            ELSE IF key \in DOMAIN st.items
            THEN Found(h.Op, st.items[key])
            ELSE Reply(st, TRUE,
                       RespHeader(h.Op, StatusNotFound, 0, 0, 9, 0),
                       <<78, 111, 116, 32, 102, 111, 117, 110, 100>>)
        Frame(h) ==
            Request(h,
                    SubSeq(frame.body, h.ExtraLen + 1,
                           h.ExtraLen + h.KeyLen),
                    SubSeq(frame.body, h.ExtraLen + h.KeyLen + 1, h.BodyLen))
    IN  Frame(frame.header)

\* A memcached server on the text protocol: splits the command line at
\* spaces; "set <key> <flags> <exp> <n>" followed by n bytes and CRLF stores
\* and answers STORED; "gets <key>" answers the VALUE line, the value and
\* CRLF if the key is there, then END; anything else answers ERROR.
TextServer(bytes, st) ==
    LET error == Reply(st, FALSE, header(0, 0), <<69, 82, 82, 79, 82, 13, 10>>)
        Found(key, it) ==
            Reply(st, FALSE, header(0, 0),
                  Join(<<<<86, 65, 76, 85, 69>>, key, Dec(it.flags),
                         Dec(Len(it.value)), Dec(it.cas)>>)
                  \o crlf \o it.value \o crlf \o resultEnd)
        Set(key, flags, n, data) ==
            IF Len(data) = n + 2 /\ Drop(data, n) = crlf
            THEN Reply(ServerSet(st, key, Take(data, n), flags), FALSE,
                       header(0, 0), resultStored)
            ELSE error
        Command(f, data) ==
            IF f = <<>> THEN error
            ELSE IF f[1] = <<115, 101, 116>>
            THEN IF Len(f) = 5 /\ IsDigits(f[3]) /\ IsDigits(f[5])
                 THEN Set(f[2], ParseUint(f[3]), ParseUint(f[5]), data)
                 ELSE error
            ELSE IF f[1] = <<103, 101, 116, 115>> /\ Len(f) = 2
            THEN IF f[2] \in DOMAIN st.items
                 THEN Found(f[2], st.items[f[2]])
                 ELSE Reply(st, FALSE, header(0, 0), resultEnd)
            ELSE error
        Line(rd) ==
            IF rd.err # "nil" THEN error
            ELSE Command(Fields(SubSeq(rd.line, 1, Len(rd.line) - 2), <<>>),
                         rd.rest)
    IN  Line(ReadSlice(bytes))

\* The response of the faithful server to what a call writes.  wire: the
\* bytes (text) or the one frame (binary) the call writes when the stream
\* takes them; nothing written leaves the server as it is.
Served(wire, st) ==
    IF wire = <<>> THEN Reply(st, FALSE, header(0, 0), <<>>)
    ELSE IF proto = "binary" THEN BinServer(wire[1], st)
    ELSE TextServer(wire, st)

\* The stream of a call that is written and not yet answered.
Quiet == Env(FALSE, FALSE, header(0, 0), <<>>)

InitRoundTrip == InitStore

\* Set(item): the driver's Populate with verb set; the server answers what
\* was written.
DoSet ==
    /\ store.cas < MaxCas
    /\ \E item \in RTItems :
         LET Returned(srv, r) ==
                 /\ call' = Call("Populate", "set", item, <<>>, 0)
                 /\ env' = srv.env
                 /\ ret' = r
                 /\ store' = srv.store
                 /\ stored' = IF r.err = "nil"
                              THEN Put(stored, item.Key, item)
                              ELSE stored
             Answered(srv) ==
                 Returned(srv, IF proto = "binary"
                               THEN BinPopulate("set", item, srv.env)
                               ELSE TextPopulate("set", item, srv.env))
         IN  Answered(Served(IF proto = "binary"
                             THEN BinPopulate("set", item, Quiet).wire
                             ELSE TextPopulate("set", item, Quiet).wire,
                             store))
    /\ UNCHANGED proto

\* Get(key): the driver's Get of one key; the server answers what was
\* written.
DoGet ==
    /\ \E key \in RTKeys :
         LET Answered(srv) ==
                 /\ call' = Call("Get", "", NoItem, <<key>>, 0)
                 /\ env' = srv.env
                 /\ ret' = IF proto = "binary"
                           THEN BinGet(<<key>>, <<srv.env>>)
                           ELSE TextGet(<<key>>, srv.env)
         IN  Answered(Served(IF proto = "binary"
                             THEN BinGet(<<key>>, <<Quiet>>).wire
                             ELSE TextGet(<<key>>, Quiet).wire,
                             store))
    /\ UNCHANGED <<proto, store, stored>>

NextRoundTrip == DoSet \/ DoGet

SpecRoundTrip == InitRoundTrip /\ [][NextRoundTrip]_vars

\* C9: for either driver, against a server that stores faithfully, a Get of
\* a key after a Set of an item with that key, no other mutation between,
\* delivers exactly one Item, with the key, the value bytes and the flags
\* of the item that was set and with the CAS token the server sent.
C9_SetGetRoundTrip ==
    (call.op = "Get" /\ call.keys[1] \in DOMAIN stored)
    => LET k == call.keys[1]
       IN  /\ ret.err = "nil"
           /\ Len(ret.items) = 1
           /\ ret.items[1].Key = k
           /\ ret.items[1].Value = stored[k].Value
           /\ ret.items[1].Flags = stored[k].Flags
           /\ ret.items[1].Casid = store.items[k].cas
           /\ ret.items[1].Casid # 0

\* C9 happens: on the text driver a Get of "foo" delivered the value with
\* CR LF inside that the second Set had stored.
C9_Witness ==
    /\ proto = "text" /\ call.op = "Get" /\ call.keys = <<foo>>
    /\ foo \in DOMAIN stored
    /\ stored[foo].Value = <<13, 10, 120, 13, 10>>
    /\ store.items[foo].cas = 2
    /\ Len(ret.items) = 1 /\ ret.items[1].Value = <<13, 10, 120, 13, 10>>

(***************************************************************************)
(* Get on the text driver, arbitrary server                                *)
(***************************************************************************)

\* The most VALUE blocks in one response.
MaxBlocks == 2

bar == <<98, 97, 114>>

\* The VALUE blocks a server may send.  size: the size the line declares;
\* cas: the token, -1 for a line without one; payload: the bytes sent after
\* the line.  In order: "fooval"; a value with CR LF inside; the value
\* "END"; the empty value; two bytes followed by XY where CR LF belongs; a
\* value whose CR LF never comes; declared sizes -1 and -3.
GetBlocks ==
    {[key |-> foo, flags |-> 123, size |-> 6, cas |-> 5,
      payload |-> <<102, 111, 111, 118, 97, 108, 13, 10>>],
     [key |-> bar, flags |-> 0, size |-> 5, cas |-> -1,
      payload |-> <<13, 10, 120, 13, 10, 13, 10>>],
     [key |-> bar, flags |-> 7, size |-> 3, cas |-> 9,
      payload |-> <<69, 78, 68, 13, 10>>],
     [key |-> foo, flags |-> 0, size |-> 0, cas |-> 1,
      payload |-> <<13, 10>>],
     [key |-> foo, flags |-> 0, size |-> 2, cas |-> 1,
      payload |-> <<97, 98, 88, 89>>],
     [key |-> foo, flags |-> 0, size |-> 9, cas |-> 1,
      payload |-> <<97, 98, 99>>],
     [key |-> foo, flags |-> 0, size |-> -1, cas |-> 1, payload |-> <<>>],
     [key |-> foo, flags |-> 0, size |-> -3, cas |-> 1, payload |-> <<>>]}

\* What may follow the blocks: END; nothing (the stream ends); ERROR; END
\* and bytes after it.
GetTails ==
    {resultEnd, <<>>, <<69, 82, 82, 79, 82, 13, 10>>,
     resultEnd \o <<120>>}

\* The VALUE line of a block.
BlockLine(b) ==
    (IF b.cas < 0
     THEN Join(<<<<86, 65, 76, 85, 69>>, b.key, Dec(b.flags), Dec(b.size)>>)
     ELSE Join(<<<<86, 65, 76, 85, 69>>, b.key, Dec(b.flags), Dec(b.size),
                 Dec(b.cas)>>))
    \o crlf

\* The bytes of a sequence of blocks.
RECURSIVE BlockBytes(_)
BlockBytes(bs) ==
    IF bs = <<>> THEN <<>>
    ELSE BlockLine(Head(bs)) \o Head(bs).payload \o BlockBytes(Tail(bs))

\* The sequences of at most n blocks.
RECURSIVE BlockSeqs(_)
BlockSeqs(n) ==
    IF n = 0 THEN {<<>>}
    ELSE BlockSeqs(n - 1)
         \cup {Append(bs, b) : bs \in {x \in BlockSeqs(n - 1) :
                                          Len(x) = n - 1},
                               b \in GetBlocks}

\* What the stream does during a text Get: the blocks and the tail the
\* server sends, and the bytes they make.
GetEnv(blocks, tail) ==
    [writeErr |-> FALSE, hdrOk |-> FALSE, header |-> header(0, 0),
     stream |-> BlockBytes(blocks) \o tail, blocks |-> blocks, tail |-> tail]

InitTextGet == InitStore /\ proto = "text"

\* Get on the text driver, answered by any blocks and tail.
DoTextGet ==
    /\ proto = "text" /\ call = NoCall
    /\ \E keys \in {<<foo>>, <<foo, bar>>}, blocks \in BlockSeqs(MaxBlocks),
          tail \in GetTails :
            /\ call' = Call("Get", "", NoItem, keys, 0)
            /\ env' = GetEnv(blocks, tail)
            /\ ret' = TextGet(keys, GetEnv(blocks, tail))
    /\ UNCHANGED <<proto, store, stored>>

\* Get on the text driver when the request cannot be written.
DoTextGetUnwritten ==
    /\ proto = "text" /\ call = NoCall
    /\ \E keys \in {<<foo>>, <<foo, bar>>} :
            /\ call' = Call("Get", "", NoItem, keys, 0)
            /\ env' = [GetEnv(<<>>, <<>>) EXCEPT !.writeErr = TRUE]
            /\ ret' = TextGet(keys, [GetEnv(<<>>, <<>>)
                                        EXCEPT !.writeErr = TRUE])
    /\ UNCHANGED <<proto, store, stored>>

NextTextGet == DoTextGet \/ DoTextGetUnwritten

SpecTextGet == InitTextGet /\ [][NextTextGet]_vars

\* Whether the size+2 bytes after a block's line are all there and end in
\* CR LF (after: everything the server sends after the line).
BlockSound(b, after) ==
    /\ b.size >= 0 /\ Len(after) >= b.size + 2
    /\ SubSeq(after, b.size + 1, b.size + 2) = <<13, 10>>

\* The number of blocks at the head of a response that are sound.
RECURSIVE SoundPrefix(_, _)
SoundPrefix(bs, tail) ==
    IF bs = <<>> THEN 0
    ELSE IF BlockSound(Head(bs),
                       Head(bs).payload \o BlockBytes(Tail(bs)) \o tail)
         THEN 1 + SoundPrefix(Tail(bs), tail)
         ELSE 0

\* The Item a sound block stands for.
BlockItem(b) ==
    [Key |-> b.key, Value |-> SubSeq(b.payload, 1, b.size),
     Flags |-> b.flags, Expiration |-> 0,
     Casid |-> IF b.cas < 0 THEN 0 ELSE b.cas]

\* C12: a text Get reads lines up to END; after a VALUE line declaring
\* size n it reads n+2 bytes and delivers the first n as the item's value
\* only if the last two are CR LF, and otherwise returns a protocol error
\* without delivering that item; items are delivered once each in the
\* order received; success is returned only after END is read.
C12_TextGetBlocks ==
    (proto = "text" /\ call.op = "Get" /\ ~env.writeErr)
    => LET k == SoundPrefix(env.blocks, env.tail)
           n == Len(env.blocks)
       IN  /\ ret.items = [i \in 1..k |-> BlockItem(env.blocks[i])]
           /\ ret.err = "nil" <=>
                (k = n /\ Take(env.tail, 5) = <<69, 78, 68, 13, 10>>)
           /\ ret.err # "nil" =>
                ret.err \notin SemanticErrors \cup {"panic"}

(***************************************************************************)
(* Get of several keys on the binary driver, arbitrary server              *)
(***************************************************************************)

\* The most keys of one Get.
MaxGetKeys == 3

\* The sequences of exactly n elements of S.
RECURSIVE Tuples(_, _)
Tuples(S, n) ==
    IF n = 0 THEN {<<>>}
    ELSE {Append(t, x) : t \in Tuples(S, n - 1), x \in S}

\* What the stream may do during one GET exchange: fail; deliver OK with
\* flags 123, the value "fooval" and token 9; deliver NotFound with a
\* message; deliver OutOfMemory.
GetReplies ==
    BinTransportFailures(opGet) \cup
    {Env(FALSE, TRUE, RespHeader(opGet, StatusOK, 4, 0, 10, 9),
         <<0, 0, 0, 123, 102, 111, 111, 118, 97, 108>>),
     Env(FALSE, TRUE, RespHeader(opGet, StatusNotFound, 0, 0, 9, 0),
         <<78, 111, 116, 32, 102, 111, 117, 110, 100>>),
     Env(FALSE, TRUE, RespHeader(opGet, 130, 0, 0, 0, 0), <<>>)}

InitMultiGet == InitStore /\ proto = "binary"

\* Get of up to MaxGetKeys keys on the binary driver; env is the sequence
\* of what the stream does during each exchange.
DoBinGetMulti ==
    /\ proto = "binary" /\ call = NoCall
    /\ \E n \in 0..MaxGetKeys :
         \E keys \in Tuples({foo, bar}, n), es \in Tuples(GetReplies, n) :
            /\ call' = Call("Get", "", NoItem, keys, 0)
            /\ env' = es
            /\ ret' = BinGet(keys, es)
    /\ UNCHANGED <<proto, store, stored>>

NextMultiGet == DoBinGetMulti

SpecMultiGet == InitMultiGet /\ [][NextMultiGet]_vars

\* The positions of a sequence of exchanges that ended with the given
\* status received whole, in order.
RECURSIVE EndedWith(_, _, _)
EndedWith(es, sts, i) ==
    IF i > Len(es) THEN <<>>
    ELSE (IF FullyReceived(es[i]) /\ es[i].header.ResvOrStatus \in sts
          THEN <<i>> ELSE <<>>) \o EndedWith(es, sts, i + 1)

\* C13: a binary Get of keys k1..kn issues a GET request for every key in
\* order whatever keys before it missed; the callback runs exactly once
\* for each key answered OK and never for a key that missed; the error
\* returned is nil if and only if every exchange ended in OK or CacheMiss.
C13_MultiGet ==
    (proto = "binary" /\ call.op = "Get")
    => LET n == Len(call.keys)
           ok == EndedWith(env, {StatusOK}, 1)
           done == EndedWith(env, {StatusOK, StatusNotFound}, 1)
       IN  /\ \A i \in 1..n :
                ((\A j \in 1..(i - 1) : \E d \in 1..Len(done) : done[d] = j)
                    /\ ~env[i].writeErr)
                => /\ Len(ret.wire) >= i
                   /\ ret.wire[i].header.Op = 0
                   /\ ret.wire[i].body = call.keys[i]
           /\ Len(ret.items) = Len(ok)
           /\ \A d \in 1..Len(ok) :
                /\ ret.items[d].Key = call.keys[ok[d]]
                /\ ret.items[d].Value = <<102, 111, 111, 118, 97, 108>>
                /\ ret.items[d].Flags = 123
                /\ ret.items[d].Casid = 9
           /\ ret.err = "nil" <=> Len(done) = n

\* C13 happens: of three keys the first missed, the second and the third
\* were answered OK; both came to the callback and the call returned nil.
C13_Witness ==
    /\ proto = "binary" /\ call.op = "Get" /\ call.keys = <<foo, bar, foo>>
    /\ EndedWith(env, {StatusNotFound}, 1) = <<1>>
    /\ EndedWith(env, {StatusOK}, 1) = <<2, 3>>
    /\ Len(ret.wire) = 3 /\ Len(ret.items) = 2 /\ ret.err = "nil"

\* C23: the exchanges of a binary Get are strictly serial on the stream:
\* once an exchange whose request was written did not get its response
\* whole (no header, or a body cut short), the call writes no request for
\* a later key.
C23_NoRequestAfterBrokenResponse ==
    (proto = "binary" /\ call.op = "Get" /\ ret.err # "panic")
    => \A i \in 1..Len(call.keys) :
          (~env[i].writeErr /\ ~FullyReceived(env[i]))
          => Len(ret.wire) = Cardinality({j \in 1..i : ~env[j].writeErr})

(***************************************************************************)
(* SASL authentication on the binary driver, arbitrary server              *)
(***************************************************************************)

\* The mechanism lists a server may answer AUTH_LIST with: "PLAIN",
\* "CRAM-MD5 PLAIN", "CRAM-MD5", the empty list, "PLAIN-CLIENTTOKEN",
\* "XPLAIN" and "plain".
MechLists ==
    {PLAIN,
     <<67, 82, 65, 77, 45, 77, 68, 53, 32>> \o PLAIN,
     <<67, 82, 65, 77, 45, 77, 68, 53>>,
     <<>>,
     PLAIN \o <<45, 67, 76, 73, 69, 78, 84, 84, 79, 75, 69, 78>>,
     <<88>> \o PLAIN,
     <<112, 108, 97, 105, 110>>}

\* What the stream may do during the AUTH_LIST exchange: fail, or deliver
\* a list with status OK, AuthRequired or UnknownCommand.
AuthListReplies ==
    BinTransportFailures(opAuthList) \cup
    {Env(FALSE, TRUE, RespHeader(opAuthList, st, 0, 0, Len(l), 0), l) :
        st \in {0, 32, 129}, l \in MechLists}

\* What the stream may do during the AUTH_START exchange: fail, or deliver
\* status OK, AuthRequired or AuthContinue with a message.
AuthStartReplies ==
    BinTransportFailures(opAuthStart) \cup
    {Env(FALSE, TRUE, RespHeader(opAuthStart, st, 0, 0, 2, 0), <<79, 75>>) :
        st \in {0, 32, 33}}

InitAuth == InitStore /\ proto = "binary"

\* Auth on the binary driver; env is the pair of what the stream does
\* during the two exchanges.
DoBinAuth ==
    /\ proto = "binary" /\ call = NoCall
    /\ \E username \in {<<117>>}, password \in {<<112, 119>>, <<>>},
          l \in AuthListReplies, s \in AuthStartReplies :
            /\ call' = Call("Auth", "", NoItem, <<username, password>>, 0)
            /\ env' = <<l, s>>
            /\ ret' = Auth(username, password, <<l, s>>)
    /\ UNCHANGED <<proto, store, stored>>

NextAuth == DoBinAuth

SpecAuth == InitAuth /\ [][NextAuth]_vars

\* Whether AUTH_LIST was answered OK with PLAIN among the mechanisms its
\* value lists, apart by spaces.
PlainOffered(e) ==
    /\ FullyReceived(e) /\ e.header.ResvOrStatus = StatusOK
    /\ \E i \in 1..Len(Fields(ValueOf(e), <<>>)) :
          Fields(ValueOf(e), <<>>)[i] = <<80, 76, 65, 73, 78>>

\* C14: Auth sends AUTH_LIST first; it sends AUTH_START (key PLAIN, value
\* NUL user NUL password) only after AUTH_LIST was answered OK with PLAIN
\* among the space-separated mechanisms; if AUTH_LIST fails or PLAIN is
\* not listed Auth returns an error and sends no AUTH_START; Auth returns
\* success only if AUTH_START was answered OK.
C14_AuthSequence ==
    (proto = "binary" /\ call.op = "Auth")
    => /\ ret.wire # <<>> =>
            /\ ret.wire[1].header.Op = 32 /\ ret.wire[1].body = <<>>
       /\ Len(ret.wire) <= 2
       /\ Len(ret.wire) = 2 =>
            /\ ret.wire[2].header.Op = 33
            /\ ret.wire[2].header.KeyLen = 5
            /\ ret.wire[2].body = <<80, 76, 65, 73, 78, 0>> \o call.keys[1]
                                    \o <<0>> \o call.keys[2]
            /\ PlainOffered(env[1])
       /\ ~PlainOffered(env[1]) => (ret.err # "nil" /\ Len(ret.wire) <= 1)
       /\ ret.err = "nil" =>
            /\ Len(ret.wire) = 2
            /\ FullyReceived(env[2])
            /\ env[2].header.ResvOrStatus = StatusOK

(***************************************************************************)
(* Touch of several keys on the binary driver, arbitrary server            *)
(***************************************************************************)

\* The most keys of one Touch.
MaxTouchKeys == 3

\* What the stream may do during one TOUCH exchange: fail; deliver OK with
\* no body and token 9; deliver OK echoing another opcode; deliver
\* NotFound with a message; deliver OutOfMemory.
TouchReplies ==
    BinTransportFailures(opTouch) \cup
    {Env(FALSE, TRUE, RespHeader(opTouch, StatusOK, 0, 0, 0, 9), <<>>),
     Env(FALSE, TRUE, RespHeader(opGet, StatusOK, 0, 0, 0, 0), <<>>),
     Env(FALSE, TRUE, RespHeader(opTouch, StatusNotFound, 0, 0, 9, 0),
         <<78, 111, 116, 32, 102, 111, 117, 110, 100>>),
     Env(FALSE, TRUE, RespHeader(opTouch, 130, 0, 0, 0, 0), <<>>)}

InitTouch == InitStore /\ proto = "binary"

\* Touch of up to MaxTouchKeys keys on the binary driver; env is the
\* sequence of what the stream does during each exchange, should it come
\* to it.
DoBinTouch ==
    /\ proto = "binary" /\ call = NoCall
    /\ \E n \in 0..MaxTouchKeys :
         \E keys \in Tuples({foo, bar}, n), es \in Tuples(TouchReplies, n) :
            /\ call' = Call("Touch", "", NoItem, keys, 2)
            /\ env' = es
            /\ ret' = BinTouch(keys, 2, es)
    /\ UNCHANGED <<proto, store, stored>>

NextTouch == DoBinTouch

SpecTouch == InitTouch /\ [][NextTouch]_vars

\* The key field of a request frame.
FrameKey(f) ==
    SubSeq(f.body, f.header.ExtraLen + 1,
           f.header.ExtraLen + f.header.KeyLen)

\* Whether an exchange succeeded: the response came whole, with status OK.
Succeeded(e) == FullyReceived(e) /\ e.header.ResvOrStatus = StatusOK

\* C15: a binary Touch of keys k1..kn makes one exchange per key in list
\* order and stops at the first exchange that does not succeed: the error
\* of that exchange is returned and no request is sent for a later key;
\* success is returned only if all n exchanges were answered OK.
C15_TouchStopsAtFirstFailure ==
    (proto = "binary" /\ call.op = "Touch")
    => LET n == Len(call.keys)
           failed == {i \in 1..n : ~Succeeded(env[i])}
           first == IF failed = {} THEN n + 1
                    ELSE CHOOSE i \in failed : \A j \in failed : i <= j
           sent == IF first > n THEN n
                   ELSE IF env[first].writeErr THEN first - 1 ELSE first
       IN  /\ Len(ret.wire) = sent
           /\ \A i \in 1..sent : FrameKey(ret.wire[i]) = call.keys[i]
           /\ ret.err = "nil" <=> first = n + 1
           /\ first <= n =>
                ret.err = (IF env[first].writeErr THEN "write error"
                           ELSE IF ~FullyReceived(env[first])
                           THEN "read error"
                           ELSE IF env[first].header.ResvOrStatus = 1
                           THEN "ErrCacheMiss" ELSE "ErrOutOfMemory")

\* C15 happens: of three keys the first was touched, the second missed;
\* two requests were sent, the third key was never asked for, and the
\* call returned CacheMiss.
C15_Witness ==
    /\ proto = "binary" /\ call.op = "Touch" /\ call.keys = <<foo, bar, foo>>
    /\ Succeeded(env[1])
    /\ FullyReceived(env[2]) /\ env[2].header.ResvOrStatus = StatusNotFound
    /\ Succeeded(env[3])
    /\ Len(ret.wire) = 2 /\ ret.err = "ErrCacheMiss"

\* C25: every request frame of a binary Touch is built from the call's
\* arguments alone: opcode TOUCH, header CAS 0, reserved field 0, opaque 0,
\* the 4-byte expiration as extras, then the key and no value; nothing of
\* a response received before appears in it.
C25_TouchFramesFromArguments ==
    (proto = "binary" /\ call.op = "Touch")
    => \A i \in 1..Len(ret.wire) :
          LET f == ret.wire[i]
          IN  /\ f.header.Op = opTouch
              /\ f.header.CAS = 0
              /\ f.header.ResvOrStatus = 0
              /\ f.header.Opaque = 0
              /\ f.header.ExtraLen = 4
              /\ f.body = Uint32Bytes(call.delta) \o call.keys[i]

(***************************************************************************)
(* Delete and Increment/Decrement on the text driver, arbitrary server     *)
(***************************************************************************)

\* What the stream does when the request cannot be written.
Unwritable == Env(TRUE, FALSE, header(0, 0), <<>>)

\* The stream of a text exchange that answers the given bytes.
Answer(bytes) == Env(FALSE, FALSE, header(0, 0), bytes)

\* What a server may answer a delete with: DELETED, NOT_FOUND, OK,
\* NOT_STORED, EXISTS, ERROR, DELETED without the CR, DELETED without end
\* of line, nothing, an empty line.
DeleteReplies ==
    {resultDeleted, resultNotFound, resultOK, resultNotStored, resultExists,
     <<69, 82, 82, 79, 82, 13, 10>>, <<68, 69, 76, 69, 84, 69, 68, 10>>,
     <<68, 69, 76, 69, 84, 69, 68>>, <<>>, crlf}

\* What a server may answer incr or decr with: the numbers 5, 0, 65537 and
\* 007; NOT_FOUND; CLIENT_ERROR with the message "nan", and with an empty
\* message; ERROR; -5; 5 followed by a space; an empty line; 15 ended by a
\* line feed alone; a line feed alone; CLIENT_ERROR ended by a line feed
\* alone; 5 without end of line; nothing.
CounterReplies ==
    {<<53, 13, 10>>, <<48, 13, 10>>, <<54, 53, 53, 51, 55, 13, 10>>,
     <<48, 48, 55, 13, 10>>,
     resultNotFound,
     resultClientErrorPrefix \o <<110, 97, 110, 13, 10>>,
     resultClientErrorPrefix \o crlf,
     <<69, 82, 82, 79, 82, 13, 10>>,
     <<45, 53, 13, 10>>, <<53, 32, 13, 10>>, crlf,
     <<49, 53, 10>>, <<10>>, resultClientErrorPrefix \o <<10>>,
     <<53>>, <<>>}

InitTextLine == InitStore /\ proto = "text"

\* Delete on the text driver.
DoTextDelete ==
    /\ proto = "text" /\ call = NoCall
    /\ \E key \in {foo, bar},
          e \in {Unwritable} \cup {Answer(l) : l \in DeleteReplies} :
            /\ call' = Call("Delete", "", NoItem, <<key>>, 0)
            /\ env' = e
            /\ ret' = TextDelete(key, e)
    /\ UNCHANGED <<proto, store, stored>>

\* Increment or Decrement on the text driver.
DoTextIncrDecr ==
    /\ proto = "text" /\ call = NoCall
    /\ \E verb \in {"incr", "decr"}, key \in {foo, bar},
          delta \in CounterDeltas,
          e \in {Unwritable} \cup {Answer(l) : l \in CounterReplies} :
            /\ call' = Call("IncrDecr", verb, NoItem, <<key>>, delta)
            /\ env' = e
            /\ ret' = TextIncrDecr(verb, key, delta, e)
    /\ UNCHANGED <<proto, store, stored>>

\* Touch of up to two keys on the text driver; the server answers with up
\* to two of the lines TOUCHED, NOT_FOUND and ERROR, or with nothing.
DoTextTouch ==
    /\ proto = "text" /\ call = NoCall
    /\ \E n \in 0..2 :
         \E keys \in Tuples({foo, bar}, n),
            l1, l2 \in {<<84, 79, 85, 67, 72, 69, 68, 13, 10>>,
                        resultNotFound, <<69, 82, 82, 79, 82, 13, 10>>,
                        <<>>} :
            \E e \in {Unwritable, Answer(l1 \o l2)} :
               /\ call' = Call("Touch", "", NoItem, keys, 2)
               /\ env' = e
               /\ ret' = TextTouch(keys, 2, e)
    /\ UNCHANGED <<proto, store, stored>>

NextTextLine == DoTextDelete \/ DoTextIncrDecr \/ DoTextTouch

SpecTextLine == InitTextLine /\ [][NextTextLine]_vars

\* Whether a text exchange got a whole reply line.
LineRead(e) == ~e.writeErr /\ ReadSlice(e.stream).err = "nil"

\* C16: a text Delete returns success only when the reply line is
\* DELETED, CacheMiss when it is NOT_FOUND, and an error for every other
\* reply line.
C16_TextDeleteByLine ==
    (proto = "text" /\ call.op = "Delete" /\ LineRead(env))
    => LET line == ReadSlice(env.stream).line
       IN  /\ ret.err = "nil" =>
                line = <<68, 69, 76, 69, 84, 69, 68, 13, 10>>
           /\ line = <<78, 79, 84, 95, 70, 79, 85, 78, 68, 13, 10>> =>
                ret.err = "ErrCacheMiss"
           /\ line # <<68, 69, 76, 69, 84, 69, 68, 13, 10>> =>
                ret.err # "nil"

\* The text of a reply line: the line without the CR LF that ends it.
LineText(line) == SubSeq(line, 1, Len(line) - 2)

\* Whether a reply line is a decimal unsigned number followed by CR LF.
IsNumberLine(line) ==
    /\ Len(line) >= 3 /\ SubSeq(line, Len(line) - 1, Len(line)) = <<13, 10>>
    /\ \A i \in 1..(Len(line) - 2) : line[i] \in 48..57

\* C17: a text Increment/Decrement returns a number and no error if and
\* only if the reply line is a decimal unsigned number, the number
\* returned being that one; NOT_FOUND yields CacheMiss; a CLIENT_ERROR
\* line yields an error that says "client error" with the server's
\* message and is not the NonNumeric kind; any other reply line yields an
\* error.
C17_TextCounterByLine ==
    (proto = "text" /\ call.op = "IncrDecr" /\ LineRead(env))
    => LET line == ReadSlice(env.stream).line
       IN  /\ ret.err = "nil" <=> IsNumberLine(line)
           /\ IsNumberLine(line) => Dec(ret.val) = Dec(ParseUint(LineText(line)))
           /\ ret.err # "panic"
           /\ line = <<78, 79, 84, 95, 70, 79, 85, 78, 68, 13, 10>> =>
                ret.err = "ErrCacheMiss"
           /\ (Len(line) >= 15 /\ SubSeq(line, 1, 13) = resultClientErrorPrefix
                  /\ SubSeq(line, Len(line) - 1, Len(line)) = <<13, 10>>) =>
                /\ ret.err = "client error"
                /\ ret.msg = SubSeq(line, 14, Len(line) - 2)

\* C24: a Touch on the text driver sends no touch command to the server
\* and never returns success.
C24_TextTouchUnsupported ==
    (proto = "text" /\ call.op = "Touch")
    => /\ ret.wire = <<>>
       /\ ret.err # "nil"

(***************************************************************************)
(* Two exchanges on one stream: what the second one reads                  *)
(***************************************************************************)

\* A response frame as the bytes the server puts on the stream: the 24
\* bytes of the header, big-endian, then the body.
FrameBytes(f) ==
    <<f.header.Magic, f.header.Op>> \o BigEndian(f.header.KeyLen, 2)
        \o <<f.header.ExtraLen, f.header.DataType>>
        \o BigEndian(f.header.ResvOrStatus, 2)
        \o BigEndian(f.header.BodyLen, 4) \o BigEndian(f.header.Opaque, 4)
        \o BigEndian(f.header.CAS, 8) \o f.body

\* What recv finds on a stream holding bytes, of which pos have been read:
\* binary.Read takes the next 24 bytes as the header, field by field; the
\* body is read from what follows.
ReaderAt(bytes, pos) ==
    LET hb == SubSeq(bytes, pos + 1, pos + 24)
        Num(i, j) == FromBigEndian(SubSeq(hb, i, j))
    IN  IF Len(bytes) - pos < 24
        THEN Env(FALSE, FALSE, header(0, 0), <<>>)
        ELSE Env(FALSE, TRUE,
                 [Magic |-> hb[1], Op |-> hb[2], KeyLen |-> Num(3, 4),
                  ExtraLen |-> hb[5], DataType |-> hb[6],
                  ResvOrStatus |-> Num(7, 8), BodyLen |-> Num(9, 12),
                  Opaque |-> Num(13, 16), CAS |-> Num(17, 24)],
                 SubSeq(bytes, pos + 25, Len(bytes)))

InitEntry ==
    /\ proto = "binary"
    /\ call = NoCall
    /\ env = [frames |-> <<>>, bytes |-> <<>>, es |-> <<>>, pos |-> <<0>>]
    /\ ret = Ret("nil", 0, <<>>, <<>>, "nil")
    /\ store = [items |-> <<>>, cas |-> 0]
    /\ stored = <<>>

\* Get of the keys "foo" and "bar" on one stream.  The server answers the
\* first request with any status and one of four bodies (none; a message;
\* extras and a value; none under a header announcing a key), the second
\* with a hit, a miss or an empty hit; the stream delivers all of it, or
\* ends one byte early, or inside the second header, or inside the first
\* frame.  env.pos: the read position before the first exchange, after it
\* and after the second.
DoBinGetOnEntry ==
    /\ proto = "binary" /\ call = NoCall
    /\ \E st1 \in {0, 1, 2, 3, 6, 7, 129, 130},
          sh1 \in {<<0, 0, <<>>>>, <<0, 0, <<78, 111, 116>>>>,
                   <<4, 0, <<0, 0, 0, 123, 120>>>>, <<0, 1, <<>>>>},
          f2 \in {[header |-> RespHeader(opGet, StatusOK, 4, 0, 5, 9),
                   body |-> <<0, 0, 0, 123, 120>>],
                  [header |-> RespHeader(opGet, StatusNotFound, 0, 0, 3, 0),
                   body |-> <<78, 111, 116>>],
                  [header |-> RespHeader(opGet, StatusOK, 0, 0, 0, 9),
                   body |-> <<>>]},
          short \in {0, 1, 2, 3} :
         LET f1 == [header |-> RespHeader(opGet, st1, sh1[1], sh1[2],
                                          Len(sh1[3]), 0),
                    body |-> sh1[3]]
             all == FrameBytes(f1) \o FrameBytes(f2)
             bytes == Take(all,
                           CASE short = 0 -> Len(all)
                             [] short = 1 -> Len(all) - 1
                             [] short = 2 -> Len(FrameBytes(f1)) + 10
                             [] short = 3 -> Len(FrameBytes(f1)) - 1)
             Both(e1, e2, c1, c2) ==
                 /\ env' = [frames |-> <<f1, f2>>, bytes |-> bytes,
                            es |-> <<e1, e2>>,
                            pos |-> <<0, c1, c1 + c2>>]
                 /\ ret' = BinGet(<<foo, bar>>, <<e1, e2>>)
             Second(e1, r1, e2) ==
                 Both(e1, e2, r1.consumed,
                      sendRecv(msg(opGet, 0, <<>>, <<"uint32">>, bar, <<>>),
                               e2).consumed)
             First(e1, r1) == Second(e1, r1, ReaderAt(bytes, r1.consumed))
             Start(e1) ==
                 First(e1,
                       sendRecv(msg(opGet, 0, <<>>, <<"uint32">>, foo, <<>>),
                                e1))
         IN  /\ call' = Call("Get", "", NoItem, <<foo, bar>>, 0)
             /\ Start(ReaderAt(bytes, 0))
    /\ UNCHANGED <<proto, store, stored>>

NextEntry == DoBinGetOnEntry

SpecEntry == InitEntry /\ [][NextEntry]_vars

\* C20: when the first response arrived whole and carries a status other
\* than OK, the exchange took exactly 24 + body-length bytes off the
\* stream; the second exchange then finds the second response's header and
\* body as the server sent them, and a second response that is a hit is
\* delivered as the Item of the second key.
C20_StatusErrorConsumesFrame ==
    (call.op = "Get"
     /\ Len(env.bytes) >= Len(FrameBytes(env.frames[1]))
     /\ env.frames[1].header.ResvOrStatus # 0)
    => LET f1 == env.frames[1]
           f2 == env.frames[2]
           l1 == Len(FrameBytes(f1))
       IN  /\ env.pos[2] = 24 + f1.header.BodyLen
           /\ env.pos[2] = l1
           /\ Len(env.bytes) >= l1 + 24 =>
                /\ env.es[2].hdrOk
                /\ env.es[2].header = f2.header
                /\ env.es[2].stream = SubSeq(env.bytes, l1 + 25,
                                             Len(env.bytes))
           /\ (ret.err # "panic"
               /\ Len(env.bytes) = l1 + Len(FrameBytes(f2))) =>
                /\ env.pos[3] = l1 + 24 + f2.header.BodyLen
                /\ ret.items =
                     IF f2.header.ResvOrStatus # StatusOK THEN <<>>
                     ELSE <<[Key |-> bar,
                             Value |-> Drop(f2.body, f2.header.ExtraLen),
                             Flags |-> IF f2.header.ExtraLen = 0 THEN 0
                                       ELSE 123,
                             Expiration |-> 0, Casid |-> f2.header.CAS]>>

\* C20 happens: the first key was answered NotFound with a three-byte
\* message, and the second key's hit was read from the 28th byte on.
C20_Witness ==
    /\ call.op = "Get"
    /\ env.frames[1].header.ResvOrStatus = StatusNotFound
    /\ env.frames[1].body = <<78, 111, 116>>
    /\ env.pos = <<0, 27, 56>>
    /\ ret.err = "nil"
    /\ ret.items = <<[Key |-> bar, Value |-> <<120>>, Flags |-> 123,
                     Expiration |-> 0, Casid |-> 9]>>

(***************************************************************************)
(* The connection pool and the per-item operation of the dispatcher, with  *)
(* concurrent callers.  Here call is, per caller, the operation in flight; *)
(* env is the pool: the capacity of a free list, the free list of each     *)
(* endpoint and the entries dialled so far (an entry is named by its       *)
(* index); ret is the last release.  The driver's operation is a binary    *)
(* store.                                                                  *)
(***************************************************************************)

\* The most per-item operations begun in a behaviour.
MaxOps == 3

\* The default capacity of an endpoint's free list.
MaxIdlePerAddr == 2

Callers == {"c1", "c2"}

Endpoints == {"a", "b"}

InitPool ==
    /\ proto = "binary"
    /\ call = [c \in Callers |->
                 [pc |-> "idle", addr |-> "a", entry |-> 0, verb |-> "set",
                  err |-> "nil", failed |-> FALSE]]
    /\ \E n \in 1..MaxIdlePerAddr :
         env = [maxIdle |-> n, free |-> [a \in Endpoints |-> <<>>],
                entries |-> <<>>, ops |-> 0]
    /\ ret = [released |-> FALSE,
              verb |-> "set", err |-> "nil", failed |-> FALSE, ok |-> FALSE,
              pushed |-> FALSE]
    /\ store = [items |-> <<>>, cas |-> 0]
    /\ stored = <<>>

\* Steps (2) and (3) of a per-item operation: the selector gives the
\* endpoint of the item's key, and Acquire pops an entry from the
\* endpoint's free list, or dials one when the list is empty.
Acquire(c) ==
    /\ call[c].pc = "idle" /\ env.ops < MaxOps
    /\ \E addr \in Endpoints :
         LET fl == env.free[addr]
             Held(i) ==
                 call' = [call EXCEPT ![c] =
                            [pc |-> "holding", addr |-> addr, entry |-> i,
                             verb |-> "set", err |-> "nil", failed |-> FALSE]]
         IN  IF fl # <<>>
             THEN /\ env' = [env EXCEPT
                               !.free[addr] = SubSeq(fl, 1, Len(fl) - 1),
                               !.ops = @ + 1]
                  /\ Held(fl[Len(fl)])
             ELSE /\ env' = [env EXCEPT
                               !.entries = Append(@, [addr |-> addr,
                                                      open |-> TRUE,
                                                      broken |-> FALSE]),
                               !.ops = @ + 1]
                  /\ Held(Len(env.entries) + 1)
    /\ UNCHANGED <<proto, ret, store, stored>>

\* Step (6): the driver's operation on the entry held, with no lock held:
\* a store with any of the verbs.  The stream fails, or the server answers
\* OK, KeyExists or OutOfMemory.  failed, broken: the exchange met a
\* transport error.
Operate(c) ==
    /\ call[c].pc = "holding"
    /\ \E verb \in StoreVerbs :
         \E e \in BinTransportFailures(verbToOp(verb)) \cup
                {Env(FALSE, TRUE, RespHeader(verbToOp(verb), st, 0, 0, 0, 9),
                     <<>>) : st \in {StatusOK, StatusKeyExists, 130}} :
            LET Done(r) ==
                    /\ call' = [call EXCEPT ![c].pc = "operated",
                                            ![c].verb = verb,
                                            ![c].err = r.err,
                                            ![c].failed = ~FullyReceived(e)]
                    /\ env' = [env EXCEPT
                                 !.entries[call[c].entry].broken =
                                     @ \/ ~FullyReceived(e)]
            IN  Done(BinPopulate(verb,
                                 [Key |-> foo, Value |-> <<120>>,
                                  Flags |-> 0, Expiration |-> 0,
                                  Casid |-> 7], e))
    /\ UNCHANGED <<proto, ret, store, stored>>

\* Step (7) and Release(entry, ok): ok when the operation returned success
\* or a semantic error; the entry goes back to its endpoint's free list if
\* ok and the list is under capacity, and is closed otherwise.
Release(c) ==
    /\ call[c].pc = "operated"
    /\ LET ok == call[c].err = "nil" \/ call[c].err \in SemanticErrors
           push == ok /\ Len(env.free[call[c].addr]) < env.maxIdle
       IN  /\ env' = IF push
                     THEN [env EXCEPT !.free[call[c].addr] =
                                          Append(@, call[c].entry)]
                     ELSE [env EXCEPT !.entries[call[c].entry].open = FALSE]
           /\ ret' = [released |-> TRUE, verb |-> call[c].verb,
                      err |-> call[c].err, failed |-> call[c].failed,
                      ok |-> ok, pushed |-> push]
    /\ call' = [call EXCEPT ![c] =
                   [pc |-> "idle", addr |-> "a", entry |-> 0, verb |-> "set",
                    err |-> "nil", failed |-> FALSE]]
    /\ UNCHANGED <<proto, store, stored>>

NextPool == \E c \in Callers : Acquire(c) \/ Operate(c) \/ Release(c)

SpecPool == InitPool /\ [][NextPool]_vars

\* C18: at every moment each open entry is held by exactly one caller or
\* lies once in exactly one free list, never both; a closed entry is held
\* by nobody and lies in no free list; an entry that met a transport error
\* lies in no free list, and is closed once its caller has released it.
C18_EntryOwnership ==
    \A i \in 1..Len(env.entries) :
        LET holders == Cardinality({c \in Callers :
                                       call[c].pc # "idle"
                                       /\ call[c].entry = i})
            idle == Cardinality({<<a, k>> \in
                                    Endpoints \X (1..Len(env.entries)) :
                                    /\ k <= Len(env.free[a])
                                    /\ env.free[a][k] = i})
        IN  /\ env.entries[i].open => holders + idle = 1
            /\ ~env.entries[i].open => holders + idle = 0
            /\ \A a \in Endpoints : \A k \in 1..Len(env.free[a]) :
                  env.free[a][k] = i => env.entries[i].addr = a
            /\ env.entries[i].broken =>
                  /\ idle = 0
                  /\ holders = 0 => ~env.entries[i].open

\* C19: a release hands the entry back as reusable exactly when the
\* operation returned success or a semantic error, an entry handed back as
\* reusable returns to the free list (room permitting) and any other is
\* closed; and after an operation that met a transport error the entry is
\* closed and not returned.
C19_ReleaseByOutcome ==
    ret.released =>
        /\ ret.ok <=> (ret.err = "nil" \/ ret.err \in SemanticErrors)
        /\ ret.pushed => ret.ok
        /\ ret.failed => ~ret.pushed

====
